---------------------------- MODULE Spec2Model ----------------------------
(***************************************************************************)
(* A model of the Lark Bitable timesheet proxy (src/index.js, the SMS      *)
(* login variant, and the earlier variants kept in src/unnamed/part_000).  *)
(*                                                                         *)
(* JavaScript values are tagged records: the tag t is the typeof/shape,    *)
(* and each shape keeps its payload under a field of its own.  A string is *)
(* a sequence of one-character strings, so that trim, slice, join and the  *)
(* lexicographic comparison of the code are computed, not assumed.         *)
(* Times are milliseconds counted from the start of the process.           *)
(***************************************************************************)
EXTENDS Integers, Sequences, FiniteSets, TLC

(***************************************************************************)
(* State                                                                   *)
(***************************************************************************)

VARIABLES
  qTable,    \* the rows the remote timesheet table holds, in table order
  qTz,       \* the time zone of the process, minutes east of UTC
  qPhase,    \* "idle" | "listing" (awaiting listBitableRecords) | "done"
  qArgs,     \* {startDate, endDate, person} of the query in progress
  qResult,   \* the rows queryTimesheetRecords returned
  qKept      \* history: for each returned row, the index of its record in qTable

qVars == << qTable, qTz, qPhase, qArgs, qResult, qKept >>

VARIABLES
  lServer,     \* the pages the server holds for the table, in order
  lPc,         \* "idle" | "token" | "page" | "returned" | "thrown"
  lPageToken,  \* pageToken
  lAll,        \* allRecords
  lRet,        \* what the call delivered to its caller
  lLog         \* history: the page requests sent by this call, with outcomes

lVars == << lServer, lPc, lPageToken, lAll, lRet, lLog >>

VARIABLES
  tNow,           \* Date.now(), milliseconds
  tTicks,         \* history: how often the clock has advanced
  cachedToken,    \* cachedToken
  tokenExpireAt,  \* tokenExpireAt
  tCalls,         \* per caller of getTenantAccessToken: pc, now, result
  tSerial,        \* the requests sent to the identity endpoint so far
  tFetch,         \* history: begin time T and declared expire E of the
                  \* refresh that wrote the cached token
  tStaleReqs,     \* history: identity requests sent since the cache was
                  \* last written
  tFailed         \* history: a refresh has failed and no call has begun since

tVars == << tNow, tTicks, cachedToken, tokenExpireAt, tCalls, tSerial, tFetch,
            tStaleReqs, tFailed >>

VARIABLES
  sNow,            \* Date.now(), milliseconds
  sTicks,          \* history: how often the clock has advanced
  phoneCodeStore,  \* phoneCodeStore: digits-only phone -> {code, expiresAt}
  lastSendAt,      \* lastSendAt: digits-only phone -> timestamp (0: no entry)
  sRoster,         \* the rows the remote employee table holds
  sReqs,           \* per connection: the handler in progress, at its await
  sLast,           \* the response sent last, with the request it answers
  sIssued,         \* history: the session tokens handed out
  sCodes,          \* history: how many request_code calls passed the throttle
  sUsed            \* history: per phone key, the code consumed since the
                   \* last code was stored (none: << >>)

sVars == << sNow, sTicks, phoneCodeStore, lastSendAt, sRoster, sReqs, sLast,
            sIssued, sCodes, sUsed >>

VARIABLES
  pVariant,  \* the deployed queryAllPersons: "fallback" (roster table, then
             \* timesheet scan) | "applicant" (scan of the Applicant column)
  pEnv,      \* whether PEOPLE_APP_TOKEN and PEOPLE_TABLE_ID are set
  pPeople,   \* the rows the remote roster table holds
  pSheet,    \* the rows the remote timesheet table holds
  pReq,      \* the GET /api/people in progress, at its await
  pLast,     \* the response of the last GET /api/people
  pPrev      \* history: the response of the GET /api/people before it

pVars == << pVariant, pEnv, pPeople, pSheet, pReq, pLast, pPrev >>

\* What each part of the model leaves alone.
notQ == << lVars, tVars, sVars, pVars >>
notL == << qVars, tVars, sVars, pVars >>
notT == << qVars, lVars, sVars, pVars >>
notS == << qVars, lVars, tVars, pVars >>
notP == << qVars, lVars, tVars, sVars >>

vars == << qVars, lVars, tVars, sVars, pVars >>

(***************************************************************************)
(* Strings                                                                 *)
(***************************************************************************)

\* The characters the model uses, in ascending UTF-16 code-unit order.
Alphabet ==
  << " ", "+", ",", "-", "/", "0", "1", "2", "3", "4", "5", "6", "7", "8", "9",
     ":", "A", "B", "C", "J", "O", "[", "]", "b", "c", "e", "i", "j", "l",
     "o", "t" >>

\* The rank of a character: the order of the UTF-16 code units that the
\* relational operators of JavaScript compare strings by.
Code(c) == CHOOSE i \in 1..Len(Alphabet) : Alphabet[i] = c

RECURSIVE StrLess(_, _)
\* a < b on strings: lexicographic by code unit, a proper prefix is smaller.
StrLess(a, b) ==
  IF b = << >> THEN FALSE
  ELSE IF a = << >> THEN TRUE
  ELSE IF Head(a) = Head(b) THEN StrLess(Tail(a), Tail(b))
  ELSE Code(Head(a)) < Code(Head(b))

\* a > b on strings.
StrGreater(a, b) == StrLess(b, a)

IsSpace(c) == c = " "

RECURSIVE TrimStart(_)
TrimStart(s) ==
  IF s = << >> THEN << >>
  ELSE IF IsSpace(Head(s)) THEN TrimStart(Tail(s)) ELSE s

RECURSIVE TrimEnd(_)
TrimEnd(s) ==
  IF s = << >> THEN << >>
  ELSE IF IsSpace(s[Len(s)]) THEN TrimEnd(SubSeq(s, 1, Len(s) - 1)) ELSE s

\* String.prototype.trim
Trim(s) == TrimEnd(TrimStart(s))

\* String.prototype.slice(0, n)
Slice0(s, n) == IF Len(s) <= n THEN s ELSE SubSeq(s, 1, n)

Digits == << "0", "1", "2", "3", "4", "5", "6", "7", "8", "9" >>

RECURSIVE NatToStr(_)
\* String(n) for a non-negative integer n.
NatToStr(n) ==
  IF n < 10 THEN << Digits[n + 1] >>
  ELSE NatToStr(n \div 10) \o << Digits[(n % 10) + 1] >>

\* String(n).padStart(2, "0")
PadStart2(s) == IF Len(s) >= 2 THEN s ELSE << "0" >> \o s

RECURSIVE JoinStrs(_, _)
\* Array.prototype.join on an array of strings.
JoinStrs(ss, sep) ==
  IF ss = << >> THEN << >>
  ELSE IF Len(ss) = 1 THEN ss[1]
  ELSE ss[1] \o sep \o JoinStrs(Tail(ss), sep)

CommaSpace == << ",", " " >>

(***************************************************************************)
(* JavaScript values                                                       *)
(***************************************************************************)

Undef == [t |-> "undefined"]
Null == [t |-> "null"]
NaN == [t |-> "nan"]
Str(s) == [t |-> "string", s |-> s]
\* The number hi * 86400000 + lo (an epoch-millisecond date is a day count and
\* the milliseconds within the day; a small number has hi = 0).
Num(hi, lo) == [t |-> "number", hi |-> hi, lo |-> lo]
Arr(items) == [t |-> "array", items |-> items]
\* A link object with its text and name properties (Undef when absent).
Obj(text, name) == [t |-> "object", text |-> text, name |-> name]

IsStr(v) == v.t = "string"
IsArr(v) == v.t = "array"
IsObj(v) == v.t = "object"
IsNum(v) == v.t = "number"

\* ToBoolean: what `v || w`, `if (v)` and `!v` test.
Truthy(v) ==
  CASE v.t = "undefined" -> FALSE
    [] v.t = "null" -> FALSE
    [] v.t = "nan" -> FALSE
    [] v.t = "string" -> v.s # << >>
    [] v.t = "number" -> ~(v.hi = 0 /\ v.lo = 0)
    [] OTHER -> TRUE

\* v || w
OrElse(v, w) == IF Truthy(v) THEN v ELSE w

ObjectObject ==
  << "[", "o", "b", "j", "e", "c", "t", " ", "O", "b", "j", "e", "c", "t", "]" >>

\* String(v) for the values an array element or a link property can be.
ToStr(v) ==
  CASE v.t = "string" -> v.s
    [] v.t = "number" -> NatToStr(v.lo)
    [] v.t = "object" -> ObjectObject
    [] OTHER -> << >>

\* addIfGood of extractTextValues: the trimmed string when it is not empty.
AddIfGood(v) ==
  IF IsStr(v) /\ Trim(v.s) # << >> THEN << Trim(v.s) >> ELSE << >>

\* The text and name of one link object, in that order, each when truthy.
ObjTexts(o) ==
  (IF Truthy(o.text) THEN AddIfGood(Str(ToStr(o.text))) ELSE << >>)
  \o (IF Truthy(o.name) THEN AddIfGood(Str(ToStr(o.name))) ELSE << >>)

RECURSIVE ItemsTexts(_)
ItemsTexts(items) ==
  IF items = << >> THEN << >>
  ELSE LET item == Head(items)
       IN (IF IsStr(item) THEN AddIfGood(item)
           ELSE IF IsObj(item) THEN ObjTexts(item)
           ELSE << >>) \o ItemsTexts(Tail(items))

\* extractTextValues: the trimmed, non-empty texts of a cell, in order.
ExtractTextValues(value) ==
  IF IsStr(value) THEN AddIfGood(value)
  ELSE IF IsArr(value) THEN ItemsTexts(value.items)
  ELSE IF IsObj(value) THEN ObjTexts(value)
  ELSE << >>

\* Array.prototype.includes on an array of strings.
Includes(ss, s) == \E i \in 1..Len(ss) : ss[i] = s


\* What a call delivers to its caller: nothing yet, a value, or an exception.
NoRet == [kind |-> "none"]
Returned(v) == [kind |-> "value", value |-> v]
Thrown(msg) == [kind |-> "error", msg |-> msg]

(***************************************************************************)
(* The state of each part before any request                               *)
(***************************************************************************)

NoArgs == [startDate |-> Undef, endDate |-> Undef, person |-> Undef]

\* No query in progress.
QIdle == qPhase = "idle" /\ qArgs = NoArgs /\ qResult = << >> /\ qKept = << >>

\* No listing in progress.
LIdle ==
  /\ lPc = "idle" /\ lPageToken = Undef /\ lAll = << >>
  /\ lRet = NoRet /\ lLog = << >>

\* The callers whose calls may overlap.
Callers == { "a", "b" }

IdleCall == [pc |-> "idle", now |-> 0, ret |-> NoRet, sent |-> 0]
NoFetch == [T |-> 0, E |-> Undef]

\* No token cached, no call in progress.
TIdle ==
  /\ tNow = 0 /\ tTicks = 0
  /\ cachedToken = Null /\ tokenExpireAt = 0
  /\ tCalls = [c \in Callers |-> IdleCall]
  /\ tSerial = 0 /\ tFetch = NoFetch /\ tStaleReqs = 0
  /\ tFailed = FALSE

\* The phone numbers clients send: an employee's number, the same number
\* with dashes, and a number of nobody.
Phone1 == << "6", "0", "4", "1", "2", "3", "4", "5", "6", "7" >>
Phone1Dashed ==
  << "6", "0", "4", "-", "1", "2", "3", "-", "4", "5", "6", "7" >>
Phone2 == << "7", "7", "8", "5", "5", "5", "0", "0", "0", "0" >>
PhoneInputs == { Phone1, Phone1Dashed, Phone2 }

\* String(phone).replace(/\D/g, "")
DigitsOnly(phone) == SelectSeq(phone, LAMBDA c : \E i \in 1..10 : Digits[i] = c)

PhoneKeys == { DigitsOnly(ph) : ph \in PhoneInputs }

\* The connections whose requests may overlap.
Conns == { "x", "y" }

NoEntry == [present |-> FALSE, code |-> << >>, expiresAt |-> 0]
\* A handler between its awaits: where it is, its phone and code, and (for
\* the claims) the entry its setPhoneCode overwrote.
IdleReq == [pc |-> "idle", phone |-> << >>, code |-> << >>, prev |-> NoEntry]
NoToken == [parts |-> << >>]
NoResp ==
  [ op |-> "none", status |-> 0, msg |-> "", phone |-> << >>, code |-> << >>,
    consumed |-> FALSE, token |-> NoToken, personName |-> << >>,
    args |-> NoArgs, sessionToken |-> Undef, eff |-> Undef, at |-> 0,
    upstream |-> "none", data |-> << >>, waitSec |-> 0, item |-> NoEntry,
    payload |-> Null, body |-> -1, detail |-> "" ]

\* Date.now() when the process starts: an instant later than every window
\* of the code.
StartOfProcess == 24 * 3600 * 1000

\* Nothing stored, no request in progress (the roster is the table's own).
SIdle ==
  /\ sNow = StartOfProcess /\ sTicks = 0
  /\ phoneCodeStore = [k \in PhoneKeys |-> NoEntry]
  /\ lastSendAt = [k \in PhoneKeys |-> 0]
  /\ sReqs = [c \in Conns |-> IdleReq]
  /\ sLast = NoResp
  /\ sIssued = {} /\ sCodes = 0
  /\ sUsed = [k \in PhoneKeys |-> << >>]

\* No GET /api/people in progress, none answered.
IdlePeople == [pc |-> "idle", rosterReads |-> 0, rosterFailed |-> FALSE]
NoPeopleResp ==
  [status |-> 0, data |-> << >>, source |-> "none", rosterReads |-> 0,
   rosterFailed |-> FALSE, sheetFailed |-> FALSE, body |-> -1, msg |-> ""]
PIdle == pReq = IdlePeople /\ pLast = NoPeopleResp /\ pPrev = NoPeopleResp

\* No roster table configured and nothing in the tables.
NoPeopleEnv == [appToken |-> FALSE, tableId |-> FALSE]
PEmpty ==
  /\ pVariant = "fallback" /\ pEnv = NoPeopleEnv
  /\ pPeople = << >> /\ pSheet = << >>
  /\ PIdle

(***************************************************************************)
(* Records of a table and the timesheet query                              *)
(***************************************************************************)

\* The column names the code reads (ASCII stand-ins for the bilingual names).
ColDate == "Date"
ColNameText == "NameText"
ColApplicant == "Applicant"
ColProject == "Project"
ColStartTime == "StartTime"
ColEndTime == "EndTime"
ColHours == "Hours"

\* process.env.TIMESHEET_PERSON_FIELD_NAME || "人员姓名 NameText", env unset.
TIMESHEET_PERSON_FIELD_NAME == ColNameText

\* f[k]: the cell, undefined when the record has no such column.
Get(f, k) == IF k \in DOMAIN f THEN f[k] ELSE Undef

\* r.fields || {}
FieldsOf(r) == IF r.hasFields THEN r.fields ELSE [c \in {} |-> Undef]

\* The calendar date of a day count since 1970-01-01 (what the Date getters
\* getFullYear, getMonth() + 1 and getDate return), as <<y, m, d>>.
CivilFromDays(days) ==
  LET z == days + 719468
      era == z \div 146097
      doe == z - era * 146097
      yoe == (doe - doe \div 1460 + doe \div 36524 - doe \div 146096) \div 365
      doy == doe - (365 * yoe + yoe \div 4 - yoe \div 100)
      mp == (5 * doy + 2) \div 153
      d == doy - (153 * mp + 2) \div 5 + 1
      m == IF mp < 10 THEN mp + 3 ELSE mp - 9
      y == yoe + era * 400 + (IF m <= 2 THEN 1 ELSE 0)
  IN << y, m, d >>

\* `${y}-${m}-${dd}` with m and dd padded to two digits.
FormatYMD(ymd) ==
  NatToStr(ymd[1]) \o << "-" >> \o PadStart2(NatToStr(ymd[2]))
    \o << "-" >> \o PadStart2(NatToStr(ymd[3]))

\* toDateStr: a number is an epoch-millisecond instant formatted as its local
\* date (tz: minutes east of UTC), a string is cut to 10 characters, anything
\* else is "".
ToDateStr(val, tz) ==
  IF IsNum(val)
    THEN FormatYMD(CivilFromDays(val.hi + ((val.lo + tz * 60000) \div 86400000)))
  ELSE IF IsStr(val) THEN Slice0(val.s, 10)
  ELSE << >>

\* f[TIMESHEET_PERSON_FIELD_NAME] || f["人员姓名 NameText"] || f["人员 Applicant"]
PersonVal(f) ==
  OrElse(OrElse(Get(f, TIMESHEET_PERSON_FIELD_NAME), Get(f, ColNameText)),
         Get(f, ColApplicant))

\* The first guard of the filter: the record is dropped when its date string
\* is non-empty and sorts before the start date.
BeforeStart(startStr, recordDateStr) ==
  Truthy(startStr) /\ recordDateStr # << >> /\ StrLess(recordDateStr, startStr.s)

\* A filter without the upper bound.
AfterEndNever(endStr, recordDateStr) == FALSE

\* The second guard: non-empty and sorts after the end date.
AfterEnd(endStr, recordDateStr) ==
  Truthy(endStr) /\ recordDateStr # << >> /\ StrGreater(recordDateStr, endStr.s)

\* A filter that accepts a name the filter string is a prefix of.
PersonMismatchPrefix(person, f) ==
  Truthy(person)
  /\ LET names == ExtractTextValues(PersonVal(f))
     IN ~\E i \in 1..Len(names) : Slice0(names[i], Len(person.s)) = person.s

\* The third guard: a person filter is given and is not one of the names.
PersonMismatch(person, f) ==
  Truthy(person) /\ ~Includes(ExtractTextValues(PersonVal(f)), person.s)

\* The callback of records.filter.
KeepRecord(r, startStr, endStr, person, tz) ==
  LET f == FieldsOf(r)
      recordDateStr == ToDateStr(Get(f, ColDate), tz)
  IN ~BeforeStart(startStr, recordDateStr)
     /\ ~AfterEnd(endStr, recordDateStr)
     /\ ~PersonMismatch(person, f)

RECURSIVE JoinVals(_, _)
\* Array.prototype.join on an array of any values.
JoinVals(items, sep) ==
  IF items = << >> THEN << >>
  ELSE IF Len(items) = 1 THEN ToStr(items[1])
  ELSE ToStr(items[1]) \o sep \o JoinVals(Tail(items), sep)

\* normalize of queryTimesheetRecords.
Normalize(v) ==
  LET arr == ExtractTextValues(v)
  IN IF arr # << >> THEN Str(JoinStrs(arr, CommaSpace))
     ELSE IF IsArr(v) THEN Str(JoinVals(v.items, CommaSpace))
     ELSE IF v.t = "null" \/ v.t = "undefined" THEN Str(<< >>)
     ELSE v

IsDigit(c) == \E i \in 1..10 : Digits[i] = c

RECURSIVE DigitsToNat(_)
DigitsToNat(s) ==
  IF s = << >> THEN 0
  ELSE 10 * DigitsToNat(SubSeq(s, 1, Len(s) - 1))
       + ((CHOOSE i \in 1..10 : Digits[i] = s[Len(s)]) - 1)

\* Number(v): a number is itself, a string is parsed after trimming (blank is
\* 0, anything but a digit string is NaN), null is 0, an array converts
\* through its join, everything else is NaN.
ToNumber(v) ==
  LET parse(s) ==
        IF Trim(s) = << >> THEN Num(0, 0)
        ELSE IF \A i \in 1..Len(Trim(s)) : IsDigit(Trim(s)[i])
          THEN Num(0, DigitsToNat(Trim(s)))
        ELSE NaN
  IN CASE v.t = "number" -> v
       [] v.t = "string" -> parse(v.s)
       [] v.t = "null" -> Num(0, 0)
       [] v.t = "array" -> parse(JoinVals(v.items, << "," >>))
       [] OTHER -> NaN

\* The callback of filtered.map: the output row of one record.
MapRow(r, tz) ==
  LET f == FieldsOf(r)
  IN [ date |-> ToDateStr(Get(f, ColDate), tz),
       project |-> Normalize(Get(f, ColProject)),
       startTime |-> Normalize(Get(f, ColStartTime)),
       endTime |-> Normalize(Get(f, ColEndTime)),
       person |-> Normalize(PersonVal(f)),
       hours |-> ToNumber(OrElse(Get(f, ColHours), Num(0, 0))) ]

RECURSIVE FilterIdxBackwards(_, _, _, _, _, _)
\* A filter that delivers the kept records last to first.
FilterIdxBackwards(records, i, startStr, endStr, person, tz) ==
  IF i > Len(records) THEN << >>
  ELSE FilterIdxBackwards(records, i + 1, startStr, endStr, person, tz)
       \o (IF KeepRecord(records[i], startStr, endStr, person, tz)
             THEN << i >> ELSE << >>)

RECURSIVE FilterIdx(_, _, _, _, _, _)
\* The indices, in table order, of the records the filter keeps.
FilterIdx(records, i, startStr, endStr, person, tz) ==
  IF i > Len(records) THEN << >>
  ELSE (IF KeepRecord(records[i], startStr, endStr, person, tz)
          THEN << i >> ELSE << >>)
       \o FilterIdx(records, i + 1, startStr, endStr, person, tz)

\* queryTimesheetRecords on the listed records: startDate || null and
\* endDate || null, the filter, then the map.
QueryTimesheetRecords(records, startDate, endDate, person, tz) ==
  LET startStr == OrElse(startDate, Null)
      endStr == OrElse(endDate, Null)
      kept == FilterIdx(records, 1, startStr, endStr, person, tz)
  IN [k \in 1..Len(kept) |-> MapRow(records[kept[k]], tz)]


(***************************************************************************)
(* The timesheet query against a table: state and steps                    *)
(***************************************************************************)

\* The number of rows of a table.
MaxRows == 2

\* "YYYY-MM-DD" of a calendar date.
D(y, m, d) == FormatYMD(<< y, m, d >>)

Al == << "A", "l" >>
Ali == << "A", "l", "i" >>
Bo == << "B", "o" >>
AlInBlanks == << " " >> \o Al \o << " " >>
BoInBlanks == << " " >> \o Bo \o << " " >>
EightOClock == << " ", "0", "8", ":", "0", "0" >>

\* A record with the given date cell and person cells; a cell given as Undef
\* is absent from the record.
Rec(date, nameText, applicant) ==
  LET cells == [c \in {ColDate, ColNameText, ColApplicant} |->
                  CASE c = ColDate -> date
                    [] c = ColNameText -> nameText
                    [] c = ColApplicant -> applicant]
      present == {c \in DOMAIN cells : cells[c] # Undef}
  IN [hasFields |-> TRUE, fields |-> [c \in present |-> cells[c]]]

\* A record without a fields object.
BareRec == [hasFields |-> FALSE, fields |-> [c \in {} |-> Undef]]

\* Date cells: date strings, a date-time string, an epoch instant whose local
\* date depends on the time zone, no date, an array.
DateCells ==
  { Str(D(2025, 3, 5)), Str(D(2025, 3, 6) \o EightOClock), Str(D(2025, 2, 28)),
    Num(20152, 3600000), Undef, Arr(<< Str(D(2025, 3, 5)) >>) }

\* Person cells: a name, a name in blanks, a list of names, a link object
\* with text and name, a link object with text only, a longer name.
PersonCells ==
  { Str(Al), Str(<< " " >> \o Al \o << " " >>), Arr(<< Str(Al), Str(Bo) >>),
    Arr(<< Obj(Str(Al), Str(Ali)) >>), Obj(Str(Bo), Undef), Str(Ali) }

RecordPool ==
  { Rec(d, Str(Al), Undef) : d \in DateCells }
  \cup { Rec(Str(D(2025, 3, 5)), p, Undef) : p \in PersonCells }
  \cup { Rec(Str(D(2025, 3, 5)), Undef, Str(Bo)), BareRec }

Tables == UNION { [1..n -> RecordPool] : n \in 0..MaxRows }

TzOffsets == { -480, 0 }

\* The query parameters a client can send; Undef is a parameter not sent.
StartInputs == { Undef, Str(<< >>), Str(D(2025, 3, 1)), Str(D(2025, 3, 5)) }
EndInputs == { Undef, Str(D(2025, 3, 5)) }
PersonInputs == { Undef, Str(Al), Str(Bo) }

InitQuery ==
  /\ qTable \in Tables
  /\ qTz \in TzOffsets
  /\ QIdle
  /\ lServer = << >>
  /\ LIdle
  /\ TIdle
  /\ SIdle /\ sRoster = << >>
  /\ PEmpty

\* queryTimesheetRecords is called and awaits the listing of the table.
QueryCall(startDate, endDate, person) ==
  /\ qPhase = "idle"
  /\ qPhase' = "listing"
  /\ qArgs' = [startDate |-> startDate, endDate |-> endDate, person |-> person]
  /\ qResult' = << >>
  /\ qKept' = << >>
  /\ UNCHANGED << qTable, qTz, notQ >>

\* The listing delivers the table; the rows are filtered and mapped.
QueryReturn ==
  /\ qPhase = "listing"
  /\ qPhase' = "done"
  /\ qResult' = QueryTimesheetRecords(qTable, qArgs.startDate, qArgs.endDate,
                                      qArgs.person, qTz)
  /\ qKept' = FilterIdx(qTable, 1, OrElse(qArgs.startDate, Null),
                        OrElse(qArgs.endDate, Null), qArgs.person, qTz)
  /\ UNCHANGED << qTable, qTz, qArgs, notQ >>

NextQuery ==
  \/ \E s \in StartInputs, e \in EndInputs, p \in PersonInputs : QueryCall(s, e, p)
  \/ QueryReturn


\* The rows of the output for the cells of the project and hours columns:
\* tables whose records vary in those two cells.
MaxCellRows == 2

TwoBlanks == << " ", " " >>
Eight == << "8" >>

\* Project cells: a text, a text in blanks, a blank string, the empty string,
\* null, no cell, a number, a link object with a text, an object with
\* neither text nor name, arrays of texts and of numbers, an empty array.
ProjectCells ==
  { Str(Al), Str(AlInBlanks), Str(TwoBlanks), Str(<< >>), Null, Undef,
    Num(0, 5), Obj(Str(Al), Undef), Obj(Undef, Undef),
    Arr(<< Str(Al), Str(Bo) >>), Arr(<< Num(0, 1), Num(0, 2) >>), Arr(<< >>) }

\* Hours cells: no cell, null, numbers, a digit string, a digit string in
\* blanks, a string of letters, the empty string, a blank string, an object,
\* arrays.
HoursCells ==
  { Undef, Null, Num(0, 8), Num(0, 0), Str(Eight),
    Str(<< " " >> \o Eight \o << " " >>), Str(Al), Str(<< >>), Str(TwoBlanks),
    Obj(Str(Al), Undef), Arr(<< Num(0, 8) >>), Arr(<< >>) }

\* A record of Al on a fixed date with the given project and hours cells; a
\* cell given as Undef is absent from the record.
CellRec(project, hours) ==
  LET cells == [c \in {ColDate, ColNameText, ColProject, ColHours} |->
                  CASE c = ColDate -> Str(D(2025, 3, 5))
                    [] c = ColNameText -> Str(Al)
                    [] c = ColProject -> project
                    [] c = ColHours -> hours]
      present == {c \in DOMAIN cells : cells[c] # Undef}
  IN [hasFields |-> TRUE, fields |-> [c \in present |-> cells[c]]]

CellPool ==
  { CellRec(p, Num(0, 8)) : p \in ProjectCells }
  \cup { CellRec(Str(Al), h) : h \in HoursCells }

CellTables == UNION { [1..n -> CellPool] : n \in 0..MaxCellRows }

InitRows ==
  /\ qTable \in CellTables
  /\ qTz = 0
  /\ QIdle
  /\ lServer = << >>
  /\ LIdle
  /\ TIdle
  /\ SIdle /\ sRoster = << >>
  /\ PEmpty

NextRows ==
  \/ \E p \in { Undef, Str(Al) } : QueryCall(Undef, Undef, p)
  \/ QueryReturn

(***************************************************************************)
(* listBitableRecords against a paginating server: state and steps         *)
(***************************************************************************)

\* The number of pages a server holds, and of rows on a page.
MaxPages == 3
MaxPageRows == 1

\* The page_token the server issues for page i.
TokenOf(i) == Str(NatToStr(i))

\* The page a request names: the first page without page_token.
PageIndex(pageToken) ==
  IF Truthy(pageToken)
    THEN CHOOSE i \in 1..MaxPages + 1 : TokenOf(i) = pageToken
    ELSE 1

\* Page i of a server: its rows (or no items property), has_more (true but
\* on the last page), and the page_token of the response: the next page's
\* token, an empty string, or none.
PageChoices(i, last) ==
  { [hasItems |-> c.h, items |-> [j \in 1..c.n |-> << i, j >>],
     has_more |-> ~last, page_token |-> tok] :
      c \in { [h |-> TRUE, n |-> n] : n \in 0..MaxPageRows }
             \cup { [h |-> FALSE, n |-> 0] },
      tok \in { TokenOf(i + 1), Str(<< >>), Undef } }

\* A page whose has_more is true and whose page_token is empty or missing.
Truncating(page) == page.has_more /\ ~Truthy(page.page_token)

RECURSIVE ServersOf(_, _)
\* The first i pages of the servers that hold n pages.
ServersOf(i, n) ==
  IF i = 0 THEN { << >> }
  ELSE { Append(srv, page) : srv \in ServersOf(i - 1, n),
                             page \in PageChoices(i, i = n) }

Servers == UNION { ServersOf(n, n) : n \in 1..MaxPages }

RECURSIVE RowsFrom(_, _)
\* Every row of the table: the items of all pages from page i on, in order.
RowsFrom(srv, i) ==
  IF i > Len(srv) THEN << >> ELSE srv[i].items \o RowsFrom(srv, i + 1)

InitList ==
  /\ lServer \in Servers
  /\ LIdle
  /\ qTable = << >>
  /\ qTz = 0
  /\ QIdle
  /\ TIdle
  /\ SIdle /\ sRoster = << >>
  /\ PEmpty

\* listBitableRecords is called: it awaits getTenantAccessToken.
ListCall ==
  /\ lPc \in {"idle", "returned", "thrown"}
  /\ lPc' = "token"
  /\ lPageToken' = Undef
  /\ lAll' = << >>
  /\ lRet' = NoRet
  /\ lLog' = << >>
  /\ UNCHANGED << lServer, notL >>

\* The token arrives: pageToken = undefined, allRecords = [].
ListTokenOk ==
  /\ lPc = "token"
  /\ lPc' = "page"
  /\ UNCHANGED << lServer, lPageToken, lAll, lRet, lLog, notL >>

\* getTenantAccessToken throws: the listing throws before any page request.
ListTokenFail ==
  /\ lPc = "token"
  /\ lPc' = "thrown"
  /\ lRet' = Thrown("token")
  /\ UNCHANGED << lServer, lPageToken, lAll, lLog, notL >>

\* A failed page request that hands the rows fetched so far to the caller.
ListPageFailPartial(kind) ==
  /\ lPc = "page"
  /\ lLog' = Append(lLog, [sent |-> lPageToken, outcome |-> kind])
  /\ lPc' = "returned"
  /\ lRet' = Returned(lAll)
  /\ UNCHANGED << lServer, lPageToken, lAll, notL >>

\* One pass of the loop whose request fails: axios rejects (transport error)
\* or the response carries a non-zero code; the call throws.
ListPageFail(kind) ==
  /\ lPc = "page"
  /\ lLog' = Append(lLog, [sent |-> lPageToken, outcome |-> kind])
  /\ lPc' = "thrown"
  /\ lRet' = Thrown(kind)
  /\ UNCHANGED << lServer, lPageToken, lAll, notL >>

\* One pass of the loop whose request succeeds: the items (or []) are
\* appended, pageToken becomes page_token when has_more and undefined
\* otherwise, and the loop goes on while pageToken is truthy.
ListPageOk ==
  /\ lPc = "page"
  /\ PageIndex(lPageToken) <= Len(lServer)
  /\ LET page == lServer[PageIndex(lPageToken)]
         items == IF page.hasItems THEN page.items ELSE << >>
         next == IF page.has_more THEN page.page_token ELSE Undef
     IN /\ lLog' = Append(lLog, [sent |-> lPageToken, outcome |-> "ok"])
        /\ lAll' = lAll \o items
        /\ lPageToken' = next
        /\ IF Truthy(next)
             THEN lPc' = "page" /\ lRet' = lRet
             ELSE lPc' = "returned" /\ lRet' = Returned(lAll \o items)
  /\ UNCHANGED << lServer, notL >>

NextList ==
  \/ ListCall
  \/ ListTokenOk
  \/ ListTokenFail
  \/ ListPageOk
  \/ \E kind \in {"transport", "code"} : ListPageFail(kind)

(***************************************************************************)
(* getTenantAccessToken and its cache: state and steps                     *)
(***************************************************************************)

\* How often the clock advances, and how many identity requests are sent.
MaxTicks == 3
MaxRefresh == 3

\* The steps of the clock, in milliseconds: one, and one short of the
\* (3600 - 60) * 1000 of a token that declares expire = 3600.
Deltas == { 1, 3539999 }

\* The expire of an identity response: absent, 0, or seconds (30 is a token
\* that is stale from the start).
ExpireChoices == { Undef, Num(0, 0), Num(0, 30), Num(0, 3600) }

\* The k-th token the identity endpoint issues.
TokenNo(k) == Str(<< "t" >> \o NatToStr(k))

\* resp.data.expire || 3600
ExpireSeconds(expire) == IF Truthy(expire) THEN expire.lo ELSE 3600

\* A deadline that forgets the seconds-to-milliseconds factor.
ExpireAtNoMs(now, expire) == now + (ExpireSeconds(expire) - 60)

\* now + (expireSeconds - 60) * 1000
ExpireAt(now, expire) == now + (ExpireSeconds(expire) - 60) * 1000

\* A test that still serves the cached token at its expiry instant.
CacheFreshInclusive(now) == Truthy(cachedToken) /\ now <= tokenExpireAt

\* cachedToken && now < tokenExpireAt
CacheFresh(now) == Truthy(cachedToken) /\ now < tokenExpireAt

InitToken ==
  /\ TIdle
  /\ qTable = << >> /\ qTz = 0 /\ QIdle
  /\ lServer = << >> /\ LIdle
  /\ SIdle /\ sRoster = << >>
  /\ PEmpty

\* Time passes.
TokenTick(d) ==
  /\ tTicks < MaxTicks
  /\ tNow' = tNow + d
  /\ tTicks' = tTicks + 1
  /\ UNCHANGED << cachedToken, tokenExpireAt, tCalls, tSerial, tFetch,
                  tStaleReqs, tFailed, notT >>

\* A call begins: now = Date.now(); the cached token is returned when fresh,
\* otherwise the request to the identity endpoint is sent and awaited.
TokenCall(c) ==
  /\ tCalls[c].pc = "idle"
  /\ IF CacheFresh(tNow)
       THEN /\ tCalls' = [tCalls EXCEPT ![c] =
                 [pc |-> "returned", now |-> tNow, ret |-> Returned(cachedToken),
                  sent |-> 0]]
            /\ UNCHANGED << tSerial, tStaleReqs >>
       ELSE /\ tSerial < MaxRefresh
            /\ tCalls' = [tCalls EXCEPT ![c] =
                 [pc |-> "waiting", now |-> tNow, ret |-> NoRet, sent |-> 1]]
            /\ tSerial' = tSerial + 1
            /\ tStaleReqs' = tStaleReqs + 1
  /\ tFailed' = FALSE
  /\ UNCHANGED << tNow, tTicks, cachedToken, tokenExpireAt, tFetch, notT >>

\* A write that keeps the later of the old and the new deadline: the token
\* of one response beside the deadline of another.
TokenRespOkLatestDeadline(c, expire) ==
  /\ tCalls[c].pc = "waiting"
  /\ LET tok == TokenNo(tSerial)
         deadline == ExpireAt(tCalls[c].now, expire)
     IN /\ cachedToken' = tok
        /\ tokenExpireAt' = IF tokenExpireAt > deadline THEN tokenExpireAt
                                                         ELSE deadline
        /\ tCalls' = [tCalls EXCEPT ![c].pc = "returned", ![c].ret = Returned(tok)]
        /\ tFetch' = [T |-> tCalls[c].now, E |-> expire]
  /\ tStaleReqs' = 0
  /\ UNCHANGED << tNow, tTicks, tSerial, tFailed, notT >>

\* The identity endpoint answers code 0 with a token and expire: both cache
\* variables are written, the deadline from the call's own now.
TokenRespOk(c, expire) ==
  /\ tCalls[c].pc = "waiting"
  /\ LET tok == TokenNo(tSerial)
     IN /\ cachedToken' = tok
        /\ tokenExpireAt' = ExpireAt(tCalls[c].now, expire)
        /\ tCalls' = [tCalls EXCEPT ![c].pc = "returned", ![c].ret = Returned(tok)]
        /\ tFetch' = [T |-> tCalls[c].now, E |-> expire]
  /\ tStaleReqs' = 0
  /\ UNCHANGED << tNow, tTicks, tSerial, tFailed, notT >>

\* A failure that also forgets the cached token.
TokenRespFailClearing(c, kind) ==
  /\ tCalls[c].pc = "waiting"
  /\ tCalls' = [tCalls EXCEPT ![c].pc = "thrown", ![c].ret = Thrown(kind)]
  /\ tFailed' = TRUE
  /\ cachedToken' = Null
  /\ tokenExpireAt' = 0
  /\ UNCHANGED << tNow, tTicks, tSerial, tFetch, tStaleReqs, notT >>

\* The request fails (axios rejects) or the response carries a non-zero
\* code: the call throws and the cache is left alone.
TokenRespFail(c, kind) ==
  /\ tCalls[c].pc = "waiting"
  /\ tCalls' = [tCalls EXCEPT ![c].pc = "thrown", ![c].ret = Thrown(kind)]
  /\ tFailed' = TRUE
  /\ UNCHANGED << tNow, tTicks, cachedToken, tokenExpireAt, tSerial, tFetch,
                  tStaleReqs, notT >>

\* The caller has its answer; it may call again.
TokenDone(c) ==
  /\ tCalls[c].pc \in {"returned", "thrown"}
  /\ tCalls' = [tCalls EXCEPT ![c] = IdleCall]
  /\ UNCHANGED << tNow, tTicks, cachedToken, tokenExpireAt, tSerial, tFetch,
                  tStaleReqs, tFailed, notT >>

NextToken ==
  \/ \E d \in Deltas : TokenTick(d)
  \/ \E c \in Callers : TokenCall(c)
  \/ \E c \in Callers, e \in ExpireChoices : TokenRespOk(c, e)
  \/ \E c \in Callers, kind \in {"transport", "code"} : TokenRespFail(c, kind)
  \/ \E c \in Callers : TokenDone(c)

(***************************************************************************)
(* The session layer: phone codes, session tokens, the handlers            *)
(***************************************************************************)

\* How often the clock advances, and how many request_code calls pass the
\* throttle.
MaxSTicks == 1
MaxCodes == 1

\* The steps of the clock, in milliseconds: one, and one more than the
\* lifetime of a session token (which is longer than the lifetime of a code
\* and than the throttle window).
SDeltas == { 1, 1000 * 60 * 60 * 4 + 1 }

ColPhone == "Phone"
ColCommonName == "CommonName"

\* A row of the employee table.
Emp(phoneCell, nameCell) ==
  [hasFields |-> TRUE,
   fields |-> [c \in {ColPhone, ColCommonName} |->
                 IF c = ColPhone THEN phoneCell ELSE nameCell]]

\* The employee table over time: Al under the first number; later Al gone
\* and Bo under the second number.
RosterBefore == << Emp(Str(Phone1Dashed), Str(Al)) >>
RosterAfter == << Emp(Str(Phone2), Arr(<< Str(Bo) >>)) >>

\* The timesheet table the session requests read, and the range they ask for.
SessionTable ==
  << Rec(Str(D(2025, 3, 5)), Str(Al), Undef),
     Rec(Str(D(2025, 3, 6)), Str(Bo), Undef),
     Rec(Str(D(2025, 3, 6)), Arr(<< Str(Al), Str(Bo) >>), Undef),
     Rec(Str(D(2025, 3, 7)), Str(Al), Undef) >>

SessionStart == Str(D(2025, 3, 1))
SessionEnd == Str(D(2025, 3, 6))

\* queryTimesheetRecords on that table and range, for each person filter.
SessionRows ==
  [p \in { Undef, Str(Al), Str(Bo) } |->
     QueryTimesheetRecords(SessionTable, SessionStart, SessionEnd, p, 0)]

\* The six-digit codes Math.random can yield.
Code1 == << "1", "1", "1", "1", "1", "1" >>
Code2 == << "2", "2", "2", "2", "2", "2" >>
CodePool == { Code1, Code2 }

\* The code a client submits: a code, a code in blanks, nothing.
CodeInputs == { << " " >> \o Code1 \o << " " >>, Code2, << >> }

\* process.env.SESSION_SECRET || "default_secret"
Secret == "default_secret"

\* HMAC-SHA256 of a message under a key, as an unforgeable tag: two tags are
\* equal exactly when key and message are.
Hmac(key, msg) == [key |-> key, msg |-> msg]

\* Buffer.from(JSON.stringify({personName, expiresAt})).toString("base64url")
EncodePayload(personName, expiresAt) ==
  [json |-> TRUE, personName |-> personName, expiresAt |-> expiresAt]

\* A first part that does not decode to JSON.
GarbagePayload == [json |-> FALSE, personName |-> Undef, expiresAt |-> 0]

\* createSessionToken: `${payloadBase64}.${sig}`, valid for 4 hours.
CreateSessionToken(personName, now) ==
  LET payloadBase64 == EncodePayload(Str(personName), now + 1000 * 60 * 60 * 4)
  IN [parts |-> << payloadBase64, Hmac(Secret, payloadBase64) >>]

\* A parse that never looks at the expiry.
ParseSessionTokenNoExpiry(token, now) ==
  IF token = Undef \/ token.parts = << >> THEN Null
  ELSE IF Len(token.parts) # 2 THEN Null
  ELSE IF token.parts[2] # Hmac(Secret, token.parts[1]) THEN Null
  ELSE IF ~token.parts[1].json THEN Null
  ELSE IF ~Truthy(token.parts[1].personName) THEN Null
  ELSE token.parts[1]

\* A parse that never looks at the signature.
ParseSessionTokenUnsigned(token, now) ==
  IF token = Undef \/ token.parts = << >> THEN Null
  ELSE IF Len(token.parts) # 2 THEN Null
  ELSE IF ~token.parts[1].json THEN Null
  ELSE IF ~Truthy(token.parts[1].personName)
          \/ token.parts[1].expiresAt = 0 THEN Null
  ELSE IF now > token.parts[1].expiresAt THEN Null
  ELSE token.parts[1]

\* A parse that looks the token up among the tokens handed out and accepts
\* only the latest one made for its person: a new login revokes the old one.
ParseSessionTokenLatestOnly(token, now) ==
  IF token = Undef \/ token.parts = << >> THEN Null
  ELSE IF Len(token.parts) # 2 THEN Null
  ELSE LET payloadBase64 == token.parts[1]
           sig == token.parts[2]
       IN IF sig # Hmac(Secret, payloadBase64) THEN Null
          ELSE IF ~payloadBase64.json THEN Null
          ELSE IF ~Truthy(payloadBase64.personName)
                  \/ payloadBase64.expiresAt = 0 THEN Null
          ELSE IF now > payloadBase64.expiresAt THEN Null
          ELSE IF \E tk \in sIssued :
                    /\ tk.parts[1].personName = payloadBase64.personName
                    /\ tk.parts[1].expiresAt > payloadBase64.expiresAt
                 THEN Null
          ELSE payloadBase64

\* parseSessionToken: the payload, or Null.
ParseSessionToken(token, now) ==
  IF token = Undef \/ token.parts = << >> THEN Null
  ELSE IF Len(token.parts) # 2 THEN Null
  ELSE LET payloadBase64 == token.parts[1]
           sig == token.parts[2]
       IN IF sig # Hmac(Secret, payloadBase64) THEN Null
          ELSE IF ~payloadBase64.json THEN Null
          ELSE IF ~Truthy(payloadBase64.personName)
                  \/ payloadBase64.expiresAt = 0 THEN Null
          ELSE IF now > payloadBase64.expiresAt THEN Null
          ELSE payloadBase64

\* A verification that leaves a matched entry in the store.
StoreAfterVerifyKeep(store, phone, code, now) ==
  LET key == DigitsOnly(phone)
      item == store[key]
  IN IF item.present /\ now > item.expiresAt
       THEN [store EXCEPT ![key] = NoEntry]
       ELSE store

\* A verification that also deletes the entry a wrong code was tried on.
StoreAfterVerifyBurn(store, phone, code, now) ==
  LET key == DigitsOnly(phone)
      item == store[key]
  IN IF ~item.present THEN store
     ELSE [store EXCEPT ![key] = NoEntry]

\* verifyPhoneCode, its effect on the store: an expired entry is deleted, a
\* matched entry is deleted, anything else is left.
StoreAfterVerify(store, phone, code, now) ==
  LET key == DigitsOnly(phone)
      item == store[key]
  IN IF ~item.present THEN store
     ELSE IF now > item.expiresAt THEN [store EXCEPT ![key] = NoEntry]
     ELSE IF item.code # code THEN store
     ELSE [store EXCEPT ![key] = NoEntry]

\* A verification that accepts any code while an entry is stored.
VerifyPhoneCodeAnyCode(store, phone, code, now) ==
  LET item == store[DigitsOnly(phone)]
  IN item.present /\ ~(now > item.expiresAt)

\* A verification that never looks at the expiry.
VerifyPhoneCodeNoExpiry(store, phone, code, now) ==
  LET item == store[DigitsOnly(phone)]
  IN item.present /\ item.code = code

\* verifyPhoneCode, its result.
VerifyPhoneCode(store, phone, code, now) ==
  LET item == store[DigitsOnly(phone)]
  IN item.present /\ ~(now > item.expiresAt) /\ item.code = code

\* A store that keeps the entry it has while that entry has not expired.
SetPhoneCodeKeepFirst(store, phone, code, now) ==
  LET item == store[DigitsOnly(phone)]
  IN IF item.present /\ now <= item.expiresAt
       THEN store
       ELSE [store EXCEPT ![DigitsOnly(phone)] =
               [present |-> TRUE, code |-> code,
                expiresAt |-> now + 5 * 60 * 1000]]

\* setPhoneCode with the default ttlMs of 5 minutes.
SetPhoneCode(store, phone, code, now) ==
  [store EXCEPT ![DigitsOnly(phone)] =
     [present |-> TRUE, code |-> code, expiresAt |-> now + 5 * 60 * 1000]]

\* A cooldown that still throttles at the instant the window ends.
CanSendNowAfter(phone, now) == ~(now - lastSendAt[DigitsOnly(phone)] <= 60 * 1000)

\* canSendNow with windowMs = 60 * 1000: whether the request may go on.
CanSendNow(phone, now) == ~(now - lastSendAt[DigitsOnly(phone)] < 60 * 1000)

\* canSendNow, the waitMs of a throttled request.
WaitMs(phone, now) == 60 * 1000 - (now - lastSendAt[DigitsOnly(phone)])

\* Math.ceil(ms / 1000) for ms >= 0.
CeilSec(ms) == (ms + 999) \div 1000

AllDigits(s) == \A i \in 1..Len(s) : \E j \in 1..10 : Digits[j] = s[i]

\* normalizeCanadaPhone: the E.164 form, or << >> for null.
NormalizeCanadaPhone(phone) ==
  LET p == Trim(phone)
  IN IF Len(p) = 12 /\ SubSeq(p, 1, 2) = << "+", "1" >>
        /\ AllDigits(SubSeq(p, 3, 12)) THEN p
     ELSE IF Len(p) = 10 /\ AllDigits(p) THEN << "+", "1" >> \o p
     ELSE IF Len(p) = 11 /\ Head(p) = "1" /\ AllDigits(p) THEN << "+" >> \o p
     ELSE << >>

RECURSIVE FindFrom(_, _, _)
\* The loop of findEmployeeByPhone from record i on: the first record whose
\* phone digits equal the target decides, by its first name text.
FindFrom(records, i, target) ==
  IF i > Len(records) THEN Null
  ELSE LET f == FieldsOf(records[i])
           phoneArr == ExtractTextValues(Get(f, ColPhone))
           empPhoneDigits == IF phoneArr = << >> THEN << >>
                             ELSE DigitsOnly(phoneArr[1])
           nameArr == ExtractTextValues(Get(f, ColCommonName))
       IN IF empPhoneDigits = << >> \/ empPhoneDigits # target
            THEN FindFrom(records, i + 1, target)
          ELSE IF nameArr = << >> THEN Null
          ELSE [t |-> "employee", name |-> nameArr[1], phone |-> empPhoneDigits]

\* A lookup that takes the first named record, whatever its phone.
FindEmployeeAny(phone, records) ==
  IF phone = << >> \/ records = << >> THEN Null
  ELSE LET nameArr == ExtractTextValues(Get(FieldsOf(records[1]), ColCommonName))
       IN IF nameArr = << >> THEN Null
          ELSE [t |-> "employee", name |-> nameArr[1], phone |-> DigitsOnly(phone)]

\* findEmployeeByPhone on the listed records of the employee table.
FindEmployeeByPhone(phone, records) ==
  IF phone = << >> \/ DigitsOnly(phone) = << >> THEN Null
  ELSE FindFrom(records, 1, DigitsOnly(phone))

\* res.json({code: bodyCode, ...}): the code field of the body of response r.
Json(bodyCode, r) == [r EXCEPT !.body = bodyCode]

\* A response, and the request it answers.
Resp(op, status, msg, phone, code) ==
  [NoResp EXCEPT !.op = op, !.status = status, !.msg = msg, !.phone = phone,
                 !.code = code]

\* A rejection that tells an expired code from a wrong or missing one.
InvalidOrExpiredTelling(phone, code) ==
  LET item == phoneCodeStore[DigitsOnly(phone)]
  IN [Resp("verify_code", 400,
           IF item.present /\ sNow > item.expiresAt THEN "expired"
           ELSE "invalid or expired", phone, code)
        EXCEPT !.item = item, !.body = 1]

\* verify_code when verifyPhoneCode returned false: one answer for a wrong
\* code, a missing entry and an expired entry.  The entry that was found is
\* kept with the request the response answers.
InvalidOrExpired(phone, code) ==
  [Resp("verify_code", 400, "invalid or expired", phone, code)
     EXCEPT !.item = phoneCodeStore[DigitsOnly(phone)], !.body = 1]

InitSession ==
  /\ SIdle
  /\ sRoster = RosterBefore
  /\ qTable = << >> /\ qTz = 0 /\ QIdle
  /\ lServer = << >> /\ LIdle
  /\ TIdle
  /\ PEmpty

\* Time passes.
STick(d) ==
  /\ sLast = NoResp
  /\ sTicks < MaxSTicks
  /\ sNow' = sNow + d
  /\ sTicks' = sTicks + 1
  /\ UNCHANGED << phoneCodeStore, lastSendAt, sRoster, sReqs, sLast, sIssued,
                  sCodes, sUsed, notS >>

\* The employee table is edited in the remote store.
RosterEdit ==
  /\ sLast = NoResp
  /\ sRoster = RosterBefore
  /\ sRoster' = RosterAfter
  /\ UNCHANGED << sNow, sTicks, phoneCodeStore, lastSendAt, sReqs, sLast,
                  sIssued, sCodes, sUsed, notS >>

\* A request_code that passes the cooldown check without recording the
\* instant: the timestamp is left for the request that gets its SMS out.
RequestCodeUpToUnstamped(c, rawPhone, maxCodes) ==
  /\ sLast = NoResp
  /\ sReqs[c].pc = "idle"
  /\ LET phone == Trim(rawPhone)
     IN IF phone = << >>
          THEN /\ sLast' = Json(1, Resp("request_code", 400, "phone required", phone, << >>))
               /\ UNCHANGED << lastSendAt, sReqs, sCodes >>
        ELSE IF ~CanSendNow(phone, sNow)
          THEN /\ sLast' = [Resp("request_code", 429, "wait", phone, << >>)
                               EXCEPT !.waitSec = CeilSec(WaitMs(phone, sNow)), !.body = 1]
               /\ UNCHANGED << lastSendAt, sReqs, sCodes >>
        ELSE /\ sCodes < maxCodes
             /\ sReqs' = [sReqs EXCEPT ![c] =
                  [IdleReq EXCEPT !.pc = "rc_lookup", !.phone = phone]]
             /\ sCodes' = sCodes + 1
             /\ UNCHANGED << sLast, lastSendAt >>
  /\ UNCHANGED << sNow, sTicks, phoneCodeStore, sRoster, sIssued, sUsed, notS >>

\* POST /api/request_code up to its first await: the phone is required, the
\* throttle answers 429 or records the instant, the employee lookup starts.
RequestCodeUpTo(c, rawPhone, maxCodes) ==
  /\ sLast = NoResp
  /\ sReqs[c].pc = "idle"
  /\ LET phone == Trim(rawPhone)
     IN IF phone = << >>
          THEN /\ sLast' = Json(1, Resp("request_code", 400, "phone required", phone, << >>))
               /\ UNCHANGED << lastSendAt, sReqs, sCodes >>
        ELSE IF ~CanSendNow(phone, sNow)
          THEN /\ sLast' = [Resp("request_code", 429, "wait", phone, << >>)
                               EXCEPT !.waitSec = CeilSec(WaitMs(phone, sNow)), !.body = 1]
               /\ UNCHANGED << lastSendAt, sReqs, sCodes >>
        ELSE /\ sCodes < maxCodes
             /\ lastSendAt' = [lastSendAt EXCEPT ![DigitsOnly(phone)] = sNow]
             /\ sReqs' = [sReqs EXCEPT ![c] =
                  [IdleReq EXCEPT !.pc = "rc_lookup", !.phone = phone]]
             /\ sCodes' = sCodes + 1
             /\ UNCHANGED sLast
  /\ UNCHANGED << sNow, sTicks, phoneCodeStore, sRoster, sIssued, sUsed, notS >>

RequestCode(c, rawPhone) == RequestCodeUpTo(c, rawPhone, MaxCodes)

\* request_code after findEmployeeByPhone: a failed listing answers 500, an
\* unknown phone or a phone that is no Canadian number answers 400;
\* otherwise a code is drawn and stored and the SMS dispatch starts.
RequestCodeLookup(c, listing, code) ==
  /\ sLast = NoResp
  /\ sReqs[c].pc = "rc_lookup"
  /\ LET phone == sReqs[c].phone
     IN IF listing = "throw"
          THEN /\ sLast' = [Resp("request_code", 500, "sms failed", phone, << >>)
                               EXCEPT !.upstream = "throw", !.body = 1]
               /\ sReqs' = [sReqs EXCEPT ![c] = IdleReq]
               /\ UNCHANGED << phoneCodeStore, sUsed >>
        ELSE IF FindEmployeeByPhone(phone, sRoster) = Null
          THEN /\ sLast' = Json(1, Resp("request_code", 400, "phone not found", phone, << >>))
               /\ sReqs' = [sReqs EXCEPT ![c] = IdleReq]
               /\ UNCHANGED << phoneCodeStore, sUsed >>
        ELSE IF NormalizeCanadaPhone(phone) = << >>
          THEN /\ sLast' = Json(1, Resp("request_code", 400, "invalid phone format", phone, << >>))
               /\ sReqs' = [sReqs EXCEPT ![c] = IdleReq]
               /\ UNCHANGED << phoneCodeStore, sUsed >>
        ELSE /\ phoneCodeStore' = SetPhoneCode(phoneCodeStore, phone, code, sNow)
             /\ sUsed' = [sUsed EXCEPT ![DigitsOnly(phone)] = << >>]
             /\ sReqs' = [sReqs EXCEPT ![c].pc = "rc_sms", ![c].code = code,
                                       ![c].prev =
                                         phoneCodeStore[DigitsOnly(phone)]]
             /\ UNCHANGED sLast
  /\ UNCHANGED << sNow, sTicks, lastSendAt, sRoster, sIssued, sCodes, notS >>

\* A request_code that takes its code back out of the store when the
\* dispatch threw.
RequestCodeSmsRollback(c, sms) ==
  /\ sLast = NoResp
  /\ sReqs[c].pc = "rc_sms"
  /\ sLast' = [(IF sms = "throw"
                  THEN Json(1, Resp("request_code", 500, "sms failed",
                                    sReqs[c].phone, sReqs[c].code))
                  ELSE Json(0, Resp("request_code", 200, "sent",
                                    sReqs[c].phone, sReqs[c].code)))
                 EXCEPT !.item = sReqs[c].prev, !.at = sNow]
  /\ phoneCodeStore' =
       IF sms = "throw"
         THEN [phoneCodeStore EXCEPT ![DigitsOnly(sReqs[c].phone)] = NoEntry]
         ELSE phoneCodeStore
  /\ sReqs' = [sReqs EXCEPT ![c] = IdleReq]
  /\ UNCHANGED << sNow, sTicks, lastSendAt, sRoster, sIssued, sCodes, sUsed,
                  notS >>

\* request_code after sendSmsTwilio: sent, or 500 when the dispatch threw.
RequestCodeSms(c, sms) ==
  /\ sLast = NoResp
  /\ sReqs[c].pc = "rc_sms"
  /\ sLast' = [(IF sms = "throw"
                  THEN Json(1, Resp("request_code", 500, "sms failed",
                                    sReqs[c].phone, sReqs[c].code))
                  ELSE Json(0, Resp("request_code", 200, "sent",
                                    sReqs[c].phone, sReqs[c].code)))
                 EXCEPT !.item = sReqs[c].prev, !.at = sNow]
  /\ sReqs' = [sReqs EXCEPT ![c] = IdleReq]
  /\ UNCHANGED << sNow, sTicks, phoneCodeStore, lastSendAt, sRoster, sIssued,
                  sCodes, sUsed, notS >>

\* A verify_code that suspends between the comparison and the deletion: the
\* request goes on to its lookup while the matched entry is still stored.
VerifyCodeSuspended(c, phone, rawCode) ==
  /\ sLast = NoResp
  /\ sReqs[c].pc = "idle"
  /\ IF phone = << >> \/ rawCode = << >>
       THEN /\ sLast' = Json(1, Resp("verify_code", 400,
                                     "phone and code required", phone, rawCode))
            /\ UNCHANGED << phoneCodeStore, sReqs, sUsed >>
     ELSE LET code == Trim(rawCode)
              ok == VerifyPhoneCode(phoneCodeStore, phone, code, sNow)
          IN IF ok
               THEN /\ sReqs' = [sReqs EXCEPT ![c] =
                         [IdleReq EXCEPT !.pc = "vc_lookup", !.phone = phone,
                                          !.code = code]]
                    /\ sUsed' = [sUsed EXCEPT ![DigitsOnly(phone)] = code]
                    /\ UNCHANGED << sLast, phoneCodeStore >>
               ELSE /\ sLast' = InvalidOrExpired(phone, code)
                    /\ phoneCodeStore' =
                         StoreAfterVerify(phoneCodeStore, phone, code, sNow)
                    /\ UNCHANGED << sReqs, sUsed >>
  /\ UNCHANGED << sNow, sTicks, lastSendAt, sRoster, sIssued, sCodes, notS >>

\* POST /api/verify_code up to its await: phone and code are required, the
\* trimmed code is verified against the store (and consumed), the employee
\* lookup starts.
VerifyCode(c, phone, rawCode) ==
  /\ sLast = NoResp
  /\ sReqs[c].pc = "idle"
  /\ IF phone = << >> \/ rawCode = << >>
       THEN /\ sLast' = Json(1, Resp("verify_code", 400,
                                     "phone and code required", phone, rawCode))
            /\ UNCHANGED << phoneCodeStore, sReqs, sUsed >>
     ELSE LET code == Trim(rawCode)
              ok == VerifyPhoneCode(phoneCodeStore, phone, code, sNow)
          IN /\ phoneCodeStore' = StoreAfterVerify(phoneCodeStore, phone, code, sNow)
             /\ IF ok
                  THEN /\ sReqs' = [sReqs EXCEPT ![c] =
                            [IdleReq EXCEPT !.pc = "vc_lookup", !.phone = phone,
                                          !.code = code]]
                       /\ sUsed' = [sUsed EXCEPT ![DigitsOnly(phone)] = code]
                       /\ UNCHANGED sLast
                  ELSE /\ sLast' = InvalidOrExpired(phone, code)
                       /\ UNCHANGED << sReqs, sUsed >>
  /\ UNCHANGED << sNow, sTicks, lastSendAt, sRoster, sIssued, sCodes, notS >>

\* verify_code after findEmployeeByPhone: a failed listing answers 500, no
\* employee answers 400, otherwise the session token is created and sent.
VerifyCodeLookup(c, listing) ==
  /\ sLast = NoResp
  /\ sReqs[c].pc = "vc_lookup"
  /\ LET phone == sReqs[c].phone
         emp == FindEmployeeByPhone(phone, sRoster)
         base == [NoResp EXCEPT !.op = "verify_code", !.phone = phone,
                                !.code = sReqs[c].code, !.consumed = TRUE,
                                !.at = sNow]
     IN IF listing = "throw"
          THEN /\ sLast' = [base EXCEPT !.status = 500, !.msg = "server error",
                                        !.upstream = "throw", !.body = 1]
               /\ UNCHANGED sIssued
        ELSE IF emp = Null
          THEN /\ sLast' = [base EXCEPT !.status = 400, !.body = 1,
                                        !.msg = "employee not found"]
               /\ UNCHANGED sIssued
        ELSE LET token == CreateSessionToken(emp.name, sNow)
             IN /\ sLast' = [base EXCEPT !.status = 200, !.msg = "verified",
                                         !.body = 0,
                                         !.token = token, !.personName = emp.name]
                /\ sIssued' = sIssued \cup { token }
  /\ sReqs' = [sReqs EXCEPT ![c] = IdleReq]
  /\ UNCHANGED << sNow, sTicks, phoneCodeStore, lastSendAt, sRoster, sCodes,
                  sUsed, notS >>

\* The session tokens a client can present: none, the tokens handed out,
\* such a token with the name in its payload replaced, and a payload that is
\* not JSON, signed by someone who does not know the secret.
Tampered(token) ==
  [parts |-> << [token.parts[1] EXCEPT !.personName = Str(Bo)], token.parts[2] >>]

TokenInputs ==
  { Undef } \cup sIssued \cup { Tampered(tk) : tk \in sIssued }
  \cup { [parts |-> << GarbagePayload, Hmac("guess", GarbagePayload) >>] }

\* The person the query is run for when the token's name is used only if the
\* client names nobody.
EffectivePersonClientFirst(person, sessionToken, now) ==
  LET payload == ParseSessionToken(sessionToken, now)
  IN IF ~Truthy(person) /\ sessionToken # Undef /\ payload # Null
          /\ Truthy(payload.personName)
       THEN payload.personName
       ELSE person

\* effectivePerson of GET /api/timesheet: the name in a token that parses,
\* otherwise the person parameter.
EffectivePerson(person, sessionToken, now) ==
  LET payload == ParseSessionToken(sessionToken, now)
  IN IF sessionToken # Undef /\ payload # Null /\ Truthy(payload.personName)
       THEN payload.personName
       ELSE person

\* A timesheet handler that answers 400 to a token that does not parse.
TimesheetStrict(person, sessionToken, listing) ==
  /\ sLast = NoResp
  /\ LET eff == EffectivePerson(person, sessionToken, sNow)
         base == [NoResp EXCEPT
                    !.op = "timesheet",
                    !.args = [startDate |-> SessionStart,
                              endDate |-> SessionEnd, person |-> person],
                    !.sessionToken = sessionToken, !.eff = eff, !.at = sNow,
                    !.upstream = listing]
     IN sLast' =
          IF sessionToken # Undef /\ ParseSessionToken(sessionToken, sNow) = Null
            THEN [base EXCEPT !.status = 400, !.msg = "invalid token",
                              !.body = 1, !.upstream = "none"]
          ELSE IF listing = "throw"
            THEN [base EXCEPT !.status = 500, !.msg = "server error",
                              !.body = 1]
            ELSE [base EXCEPT !.status = 200, !.body = 0,
                    !.data = SessionRows[eff]]
  /\ UNCHANGED << sNow, sTicks, phoneCodeStore, lastSendAt, sRoster, sReqs,
                  sIssued, sCodes, sUsed, notS >>

\* GET /api/timesheet: the effective person is fixed, the table is listed and
\* queried; a failed listing answers 500.
Timesheet(person, sessionToken, listing) ==
  /\ sLast = NoResp
  /\ LET eff == EffectivePerson(person, sessionToken, sNow)
         base == [NoResp EXCEPT
                    !.op = "timesheet",
                    !.args = [startDate |-> SessionStart,
                              endDate |-> SessionEnd, person |-> person],
                    !.sessionToken = sessionToken, !.eff = eff, !.at = sNow,
                    !.upstream = listing]
     IN sLast' =
          IF listing = "throw"
            THEN [base EXCEPT !.status = 500, !.msg = "server error",
                              !.body = 1]
            ELSE [base EXCEPT !.status = 200, !.body = 0,
                    !.data = SessionRows[eff]]
  /\ UNCHANGED << sNow, sTicks, phoneCodeStore, lastSendAt, sRoster, sReqs,
                  sIssued, sCodes, sUsed, notS >>

\* The response on the wire reaches its client; sLast holds one response at a
\* time.
Deliver ==
  /\ sLast # NoResp
  /\ sLast' = NoResp
  /\ UNCHANGED << sNow, sTicks, phoneCodeStore, lastSendAt, sRoster, sReqs,
                  sIssued, sCodes, sUsed, notS >>

NextSession ==
  \/ Deliver
  \/ \E d \in SDeltas : STick(d)
  \/ RosterEdit
  \/ \E c \in Conns, ph \in PhoneInputs \cup { << >> } : RequestCode(c, ph)
  \/ \E c \in Conns, l \in {"ok", "throw"}, code \in CodePool :
       RequestCodeLookup(c, l, code)
  \/ \E c \in Conns, sms \in {"ok", "throw"} : RequestCodeSms(c, sms)
  \/ \E c \in Conns, ph \in { Phone1Dashed, Phone2 }, code \in CodeInputs :
       VerifyCode(c, ph, code)
  \/ \E c \in Conns, l \in {"ok", "throw"} : VerifyCodeLookup(c, l)
  \/ \E person \in { Undef, Str(Bo) }, tk \in TokenInputs,
        l \in {"ok", "throw"} :
       Timesheet(person, tk, l)

\* The login handlers on one connection, with a clock that steps to the
\* ends of the throttle window and of a code's lifetime.
MaxLoginCodes == 2

\* One millisecond less than the throttle window, the window, the lifetime
\* of a code, one millisecond more.
LoginDeltas == { 60 * 1000 - 1, 60 * 1000, 5 * 60 * 1000, 5 * 60 * 1000 + 1 }

LoginRequestCode(rawPhone) == RequestCodeUpTo("x", rawPhone, MaxLoginCodes)

NextLogin ==
  \/ Deliver
  \/ \E d \in LoginDeltas : STick(d)
  \/ RosterEdit
  \/ \E ph \in PhoneInputs \cup { << >> } : LoginRequestCode(ph)
  \/ \E l \in {"ok", "throw"}, code \in CodePool : RequestCodeLookup("x", l, code)
  \/ \E sms \in {"ok", "throw"} : RequestCodeSms("x", sms)
  \/ \E ph \in { Phone1Dashed, Phone2 }, code \in CodeInputs :
       VerifyCode("x", ph, code)
  \/ \E l \in {"ok", "throw"} : VerifyCodeLookup("x", l)

\* createSessionToken and parseSessionToken on their own: tokens are created
\* for names, time passes, and tokens of every make are parsed.
MaxIssued == 2

\* One millisecond, the lifetime of a token, one millisecond more.
ParseDeltas == { 1, 1000 * 60 * 60 * 4, 1000 * 60 * 60 * 4 + 1 }

PersonNames == { Al, Bo }

\* A payload with the signature a holder of key gives it.
SignedBy(key, payloadBase64) ==
  [parts |-> << payloadBase64, Hmac(key, payloadBase64) >>]

\* The tokens handed to parseSessionToken: none; one part only; the tokens
\* created; such a token with its payload or its signature replaced; and,
\* signed under the secret, a payload that is not JSON, one with an empty
\* name and one without an expiry.
ParseInputs ==
  { Undef, [parts |-> << GarbagePayload >>] }
  \cup sIssued \cup { Tampered(tk) : tk \in sIssued }
  \cup { SignedBy("guess", tk.parts[1]) : tk \in sIssued }
  \cup { SignedBy(Secret, GarbagePayload),
          SignedBy(Secret, EncodePayload(Str(<< >>), sNow + 1)),
          SignedBy(Secret, EncodePayload(Str(Al), 0)) }

\* createSessionToken(p) is called now.
CreateToken(p) ==
  /\ sLast = NoResp
  /\ Cardinality(sIssued) < MaxIssued
  /\ sIssued' = sIssued \cup { CreateSessionToken(p, sNow) }
  /\ UNCHANGED << sNow, sTicks, phoneCodeStore, lastSendAt, sRoster, sReqs,
                  sLast, sCodes, sUsed, notS >>

\* parseSessionToken(tk) is called now; what it returns is kept with the
\* token and the instant.
ParseToken(tk) ==
  /\ sLast = NoResp
  /\ sLast' = [NoResp EXCEPT !.op = "parse", !.sessionToken = tk,
                             !.at = sNow,
                             !.payload = ParseSessionToken(tk, sNow)]
  /\ UNCHANGED << sNow, sTicks, phoneCodeStore, lastSendAt, sRoster, sReqs,
                  sIssued, sCodes, sUsed, notS >>

NextParse ==
  \/ Deliver
  \/ \E d \in ParseDeltas : STick(d)
  \/ \E p \in PersonNames : CreateToken(p)
  \/ \E tk \in ParseInputs : ParseToken(tk)

\* Logins, timesheet requests with tokens of every make and parses of the
\* tokens handed out, with a clock that steps over the throttle window, to
\* the end of a token's lifetime, and one millisecond past it.
LifeDeltas == { 60 * 1000, 1000 * 60 * 60 * 4, 1000 * 60 * 60 * 4 + 1 }

NextLife ==
  \/ Deliver
  \/ \E d \in LifeDeltas : STick(d)
  \/ \E ph \in PhoneInputs : LoginRequestCode(ph)
  \/ \E l \in {"ok", "throw"}, code \in CodePool : RequestCodeLookup("x", l, code)
  \/ \E sms \in {"ok", "throw"} : RequestCodeSms("x", sms)
  \/ \E ph \in { Phone1Dashed, Phone2 }, code \in CodeInputs :
       VerifyCode("x", ph, code)
  \/ \E l \in {"ok", "throw"} : VerifyCodeLookup("x", l)
  \/ \E person \in { Undef, Str(Bo) }, tk \in ParseInputs,
        l \in {"ok", "throw"} :
       Timesheet(person, tk, l)
  \/ \E tk \in sIssued : ParseToken(tk)

(***************************************************************************)
(* The people list: queryAllPersons and GET /api/people                    *)
(***************************************************************************)

\* The number of rows of the roster table and of the timesheet table.
MaxPeopleRows == 2

\* Rows of the roster table: a name in blanks, a list of names out of order,
\* a row without a name.
PeoplePool ==
  { Emp(Str(Phone2), Str(BoInBlanks)),
    Emp(Str(Phone1), Arr(<< Str(Bo), Str(Al) >>)),
    Emp(Str(Phone1), Undef) }

\* Rows of the timesheet table: an Applicant in blanks, a list of Applicants
\* out of order with a link object, a NameText next to an Applicant, a row
\* without fields.
SheetPool ==
  { Rec(Str(D(2025, 3, 5)), Undef, Str(AlInBlanks)),
    Rec(Str(D(2025, 3, 5)), Undef,
        Arr(<< Str(Bo), Obj(Str(Al), Str(Ali)) >>)),
    Rec(Str(D(2025, 3, 5)), Str(Ali), Str(Bo)),
    BareRec }

PeopleTables == UNION { [1..n -> PeoplePool] : n \in 0..MaxPeopleRows }
SheetTables == UNION { [1..n -> SheetPool] : n \in 0..MaxPeopleRows }

\* PEOPLE_APP_TOKEN and PEOPLE_TABLE_ID, each set or not.
PeopleEnvs == [appToken : BOOLEAN, tableId : BOOLEAN]

\* The elements of a sequence.
Range(seq) == { seq[i] : i \in 1..Len(seq) }

\* The least string of a non-empty set.
MinStr(S) == CHOOSE a \in S : \A b \in S : ~StrLess(b, a)

\* The strings of a set in descending order.
RECURSIVE DescendingArray(_)
DescendingArray(S) ==
  IF S = {} THEN << >>
  ELSE LET a == CHOOSE x \in S : \A b \in S : ~StrGreater(b, x)
       IN << a >> \o DescendingArray(S \ {a})

\* Array.from(personSet).sort(): the strings of the set in ascending order
\* of their code units.
RECURSIVE SortedArray(_)
SortedArray(S) ==
  IF S = {} THEN << >>
  ELSE << MinStr(S) >> \o SortedArray(S \ {MinStr(S)})

\* queryAllPersonsFromPeopleTable on the listed records.
QueryAllPersonsFromPeopleTable(records) ==
  SortedArray(UNION { Range(ExtractTextValues(Get(FieldsOf(records[i]),
                                                   ColCommonName)))
                      : i \in 1..Len(records) })

\* queryAllPersonsFromTimesheet on the listed records.
QueryAllPersonsFromTimesheet(records) ==
  SortedArray(UNION { Range(ExtractTextValues(PersonVal(FieldsOf(records[i]))))
                      : i \in 1..Len(records) })

\* What the Applicant scan adds for one element of an array cell: a string
\* as it is, the truthy text and name of an object (strings, in the tables
\* here).
ApplicantItem(item) ==
  IF IsStr(item) THEN { item.s }
  ELSE IF IsObj(item)
    THEN (IF Truthy(item.text) THEN { ToStr(item.text) } ELSE {})
         \cup (IF Truthy(item.name) THEN { ToStr(item.name) } ELSE {})
  ELSE {}

\* What the Applicant scan adds for one cell.
ApplicantCell(v) ==
  IF IsArr(v) THEN UNION { ApplicantItem(v.items[i]) : i \in 1..Len(v.items) }
  ELSE IF IsStr(v) THEN { v.s }
  ELSE {}

\* queryAllPersons of the variant that scans the Applicant column.
QueryAllPersonsApplicant(records) ==
  SortedArray(UNION { ApplicantCell(Get(FieldsOf(records[i]), ColApplicant))
                      : i \in 1..Len(records) })

\* A response of GET /api/people, with what the request went through.
PeopleResp(status, data, source, sheetFailed) ==
  [NoPeopleResp EXCEPT
     !.status = status, !.data = data, !.source = source,
     !.rosterReads = pReq.rosterReads, !.rosterFailed = pReq.rosterFailed,
     !.sheetFailed = sheetFailed]

\* res.status(500).json({code: 1, msg: "Server error"}) of GET /api/people.
PeopleServerError ==
  [PeopleResp(500, << >>, "none", TRUE) EXCEPT !.body = 1, !.msg = "server error"]

InitPeople ==
  /\ pVariant \in {"fallback", "applicant"}
  /\ pSheet \in SheetTables
  /\ IF pVariant = "fallback"
       THEN pEnv \in PeopleEnvs /\ pPeople \in PeopleTables
       ELSE pEnv = NoPeopleEnv /\ pPeople = << >>
  /\ PIdle
  /\ qTable = << >> /\ qTz = 0 /\ QIdle
  /\ lServer = << >> /\ LIdle
  /\ TIdle
  /\ SIdle /\ sRoster = << >>

\* A call that lists the roster table whether or not it is configured.
PeopleCallAlwaysRoster ==
  /\ pVariant = "fallback"
  /\ pReq.pc = "idle" /\ pPrev = NoPeopleResp
  /\ pPrev' = pLast
  /\ pLast' = NoPeopleResp
  /\ pReq' = [pc |-> "people", rosterReads |-> 1, rosterFailed |-> FALSE]
  /\ UNCHANGED << pVariant, pEnv, pPeople, pSheet, notP >>

\* GET /api/people, fallback variant, up to its first await: the roster
\* table is listed when its location is configured, otherwise the
\* timesheet table.
PeopleCall ==
  /\ pVariant = "fallback"
  /\ pReq.pc = "idle" /\ pPrev = NoPeopleResp
  /\ pPrev' = pLast
  /\ pLast' = NoPeopleResp
  /\ pReq' = IF pEnv.appToken /\ pEnv.tableId
               THEN [pc |-> "people", rosterReads |-> 1, rosterFailed |-> FALSE]
               ELSE [pc |-> "sheet", rosterReads |-> 0, rosterFailed |-> FALSE]
  /\ UNCHANGED << pVariant, pEnv, pPeople, pSheet, notP >>

\* The roster listing arrives: its names are the answer when there are any,
\* otherwise the timesheet table is listed.
PeopleRosterOk ==
  /\ pReq.pc = "people"
  /\ LET fromPeople == QueryAllPersonsFromPeopleTable(pPeople)
     IN IF fromPeople # << >>
          THEN /\ pLast' = Json(0, PeopleResp(200, fromPeople, "people", FALSE))
               /\ pReq' = IdlePeople
          ELSE /\ pReq' = [pReq EXCEPT !.pc = "sheet"]
               /\ UNCHANGED pLast
  /\ UNCHANGED << pVariant, pEnv, pPeople, pSheet, pPrev, notP >>

\* A roster failure that is answered with 500.
PeopleRosterFailPropagates ==
  /\ pReq.pc = "people"
  /\ pLast' = [PeopleResp(500, << >>, "none", FALSE)
                 EXCEPT !.rosterFailed = TRUE, !.body = 1,
                        !.msg = "server error"]
  /\ pReq' = IdlePeople
  /\ UNCHANGED << pVariant, pEnv, pPeople, pSheet, pPrev, notP >>

\* The roster listing throws: caught and logged, the timesheet table is
\* listed.
PeopleRosterFail ==
  /\ pReq.pc = "people"
  /\ pReq' = [pReq EXCEPT !.pc = "sheet", !.rosterFailed = TRUE]
  /\ UNCHANGED << pVariant, pEnv, pPeople, pSheet, pLast, pPrev, notP >>

\* The timesheet listing arrives: its names are the answer.
PeopleSheetOk ==
  /\ pReq.pc = "sheet"
  /\ pLast' = Json(0, PeopleResp(200, QueryAllPersonsFromTimesheet(pSheet),
                                   "timesheet", FALSE))
  /\ pReq' = IdlePeople
  /\ UNCHANGED << pVariant, pEnv, pPeople, pSheet, pPrev, notP >>

\* The timesheet listing throws: the handler answers 500.
PeopleSheetFail ==
  /\ pReq.pc = "sheet"
  /\ pLast' = PeopleServerError
  /\ pReq' = IdlePeople
  /\ UNCHANGED << pVariant, pEnv, pPeople, pSheet, pPrev, notP >>

\* GET /api/people, Applicant variant, up to its await.
ApplicantCall ==
  /\ pVariant = "applicant"
  /\ pReq.pc = "idle" /\ pPrev = NoPeopleResp
  /\ pPrev' = pLast
  /\ pLast' = NoPeopleResp
  /\ pReq' = [pc |-> "applicant", rosterReads |-> 0, rosterFailed |-> FALSE]
  /\ UNCHANGED << pVariant, pEnv, pPeople, pSheet, notP >>

\* The listing arrives and the Applicant column is scanned.
ApplicantOk ==
  /\ pReq.pc = "applicant"
  /\ pLast' = Json(0, PeopleResp(200, QueryAllPersonsApplicant(pSheet),
                                   "timesheet", FALSE))
  /\ pReq' = IdlePeople
  /\ UNCHANGED << pVariant, pEnv, pPeople, pSheet, pPrev, notP >>

\* The listing throws: the handler answers 500.
ApplicantFail ==
  /\ pReq.pc = "applicant"
  /\ pLast' = PeopleServerError
  /\ pReq' = IdlePeople
  /\ UNCHANGED << pVariant, pEnv, pPeople, pSheet, pPrev, notP >>

NextPeople ==
  \/ PeopleCall
  \/ PeopleRosterOk
  \/ PeopleRosterFail
  \/ PeopleSheetOk
  \/ PeopleSheetFail
  \/ ApplicantCall
  \/ ApplicantOk
  \/ ApplicantFail

(***************************************************************************)
(* The debug endpoints, and all endpoints of the process together          *)
(***************************************************************************)

\* e.message of the Error a failed token request or listing throws.
UpstreamError == "Failed to get tenant_access_token"

\* The answers of a debug endpoint to a listing: no records, or the fields
\* of the first record.
DebugAnswer(op, records) ==
  IF records = << >>
    THEN [NoResp EXCEPT !.op = op, !.status = 200, !.body = 0,
                        !.msg = "no records", !.upstream = "ok"]
    ELSE [NoResp EXCEPT !.op = op, !.status = 200, !.body = 0, !.msg = "ok",
                        !.upstream = "ok",
                        !.data = << FieldsOf(records[1]) >>]

\* The catch of a debug endpoint: status 500 and a message that ends with
\* e.message.
DebugError(op, msg) ==
  [NoResp EXCEPT !.op = op, !.status = 500, !.body = 1, !.msg = msg,
                 !.detail = UpstreamError, !.upstream = "throw"]

\* GET /api/debug-record: the timesheet table is listed.
DebugRecord(listing) ==
  /\ sLast = NoResp
  /\ sLast' = IF listing = "throw"
                THEN DebugError("debug_record", "debug error")
                ELSE DebugAnswer("debug_record", pSheet)
  /\ UNCHANGED << sNow, sTicks, phoneCodeStore, lastSendAt, sRoster, sReqs,
                  sIssued, sCodes, sUsed, notS >>

\* GET /api/debug-people: without the location of the roster table the
\* answer is code 1 sent with res.json; otherwise the roster table is listed.
DebugPeople(listing) ==
  /\ sLast = NoResp
  /\ sLast' = IF ~pEnv.appToken \/ ~pEnv.tableId
                THEN [NoResp EXCEPT !.op = "debug_people", !.status = 200,
                                    !.body = 1, !.msg = "not set"]
              ELSE IF listing = "throw"
                THEN DebugError("debug_people", "debug people error")
              ELSE DebugAnswer("debug_people", pPeople)
  /\ UNCHANGED << sNow, sTicks, phoneCodeStore, lastSendAt, sRoster, sReqs,
                  sIssued, sCodes, sUsed, notS >>

\* The process with its employee table, a roster table that is configured
\* or not, and a timesheet table that is empty or not.
InitEndpoints ==
  /\ SIdle
  /\ sRoster = RosterBefore
  /\ pVariant = "fallback"
  /\ pEnv \in PeopleEnvs
  /\ pPeople = << Emp(Str(Phone1), Str(Al)) >>
  /\ pSheet \in { << >>, << Rec(Str(D(2025, 3, 5)), Str(Bo), Undef) >> }
  /\ PIdle
  /\ qTable = << >> /\ qTz = 0 /\ QIdle
  /\ lServer = << >> /\ LIdle
  /\ TIdle

\* Every endpoint, the login handlers on one connection.
NextEndpoints ==
  \/ Deliver
  \/ \E ph \in PhoneInputs \cup { << >> } : RequestCode("x", ph)
  \/ \E l \in {"ok", "throw"}, code \in CodePool : RequestCodeLookup("x", l, code)
  \/ \E sms \in {"ok", "throw"} : RequestCodeSms("x", sms)
  \/ \E ph \in { Phone1Dashed, Phone2 }, code \in CodeInputs : VerifyCode("x", ph, code)
  \/ \E l \in {"ok", "throw"} : VerifyCodeLookup("x", l)
  \/ \E person \in { Undef, Str(Bo) }, tk \in TokenInputs, l \in {"ok", "throw"} :
       Timesheet(person, tk, l)
  \/ PeopleCall
  \/ PeopleRosterOk
  \/ PeopleRosterFail
  \/ PeopleSheetOk
  \/ PeopleSheetFail
  \/ \E l \in {"ok", "throw"} : DebugRecord(l)
  \/ \E l \in {"ok", "throw"} : DebugPeople(l)

(***************************************************************************)
(* Claims about the timesheet query                                        *)
(***************************************************************************)

\* A query has returned and both start_date and end_date were supplied.
BothDatesSupplied ==
  qPhase = "done" /\ Truthy(qArgs.startDate) /\ Truthy(qArgs.endDate)

\* start <= d <= end under the lexicographic comparison of strings.
InRange(d, start, end) == ~StrLess(d, start) /\ ~StrGreater(d, end)

\* C5 as stated: with start_date and end_date both supplied, every returned
\* row has a date d with start_date <= d <= end_date, also for a record whose
\* date cell is absent or of an unexpected type.
C5_AllDatesInRange ==
  BothDatesSupplied =>
    \A k \in 1..Len(qResult) :
      InRange(qResult[k].date, qArgs.startDate.s, qArgs.endDate.s)

\* C5 amended: with start_date and end_date both supplied, every returned row
\* has a date d that is the empty string (the date cell is absent, empty, or
\* neither a string nor a number) or has start_date <= d <= end_date.
C5_DatesEmptyOrInRange ==
  BothDatesSupplied =>
    \A k \in 1..Len(qResult) :
      \/ qResult[k].date = << >>
      \/ InRange(qResult[k].date, qArgs.startDate.s, qArgs.endDate.s)

\* A range query returned an undated row and a dated row, and dropped a record.
C5_Witness ==
  /\ BothDatesSupplied
  /\ \E k \in 1..Len(qResult) : qResult[k].date = << >>
  /\ Len(qResult) < Len(qTable)

\* A query has returned and a non-empty person filter was supplied.
PersonSupplied == qPhase = "done" /\ Truthy(qArgs.person)

\* C6 as stated: with a non-empty person filter p, every returned row has an
\* output person field equal to p, also for a cell that lists several names
\* or is a link object with text and name.
C6_PersonEqualsFilter ==
  PersonSupplied =>
    \A k \in 1..Len(qResult) : qResult[k].person = Str(qArgs.person.s)

\* C6 amended: with a non-empty person filter p, every returned row comes from
\* a record whose person cell has p as one of its trimmed texts (a whole
\* text, not a part of one); the output person field is those texts joined
\* by ", ", which is p exactly when the cell carries the one text.
C6_PersonAmongNames ==
  PersonSupplied =>
    /\ Len(qKept) = Len(qResult)
    /\ \A k \in 1..Len(qResult) :
         LET names == ExtractTextValues(PersonVal(FieldsOf(qTable[qKept[k]])))
         IN /\ Includes(names, qArgs.person.s)
            /\ qResult[k].person = Str(JoinStrs(names, CommaSpace))
            /\ (Len(names) = 1 <=> qResult[k].person = Str(qArgs.person.s))

\* A person query returned a row of several names and dropped a record.
C6_Witness ==
  /\ PersonSupplied
  /\ \E k \in 1..Len(qResult) : qResult[k].person # Str(qArgs.person.s)
  /\ Len(qResult) < Len(qTable)


\* The record row k of the result was made from.
SourceRecord(k) == qTable[qKept[k]]

\* The raw cell of a column in that record.
RawCell(k, col) == Get(FieldsOf(SourceRecord(k)), col)

\* A raw hours value that is not numeric: a string with a character that is
\* no digit, or an object.
NonNumeric(v) ==
  \/ IsStr(v) /\ \E i \in 1..Len(Trim(v.s)) : ~IsDigit(Trim(v.s)[i])
  \/ IsObj(v)

\* C21: the hours field of every returned row is a number, and it is 0
\* whenever the raw hours cell is absent or non-numeric, a non-numeric
\* string included.
C21_HoursNumberDefaultZero ==
  qPhase = "done" =>
    \A k \in 1..Len(qResult) :
      /\ IsNum(qResult[k].hours)
      /\ (RawCell(k, ColHours) = Undef \/ NonNumeric(RawCell(k, ColHours)))
           => qResult[k].hours = Num(0, 0)

\* A record whose hours cell is a string of letters came back with hours NaN.
C21_Witness ==
  /\ qPhase = "done"
  /\ \E k \in 1..Len(qResult) :
       /\ RawCell(k, ColHours) = Str(Al)
       /\ qResult[k].hours = NaN

\* The raw values normalize is applied to in row k, each with its output.
Normalized(k) ==
  { << RawCell(k, ColProject), qResult[k].project >>,
    << RawCell(k, ColStartTime), qResult[k].startTime >>,
    << RawCell(k, ColEndTime), qResult[k].endTime >>,
    << PersonVal(FieldsOf(SourceRecord(k))), qResult[k].person >> }

\* C22: the project, startTime, endTime and person of every returned row are
\* flat strings whatever the raw cell is: a string cell gives its trimmed
\* text (a blank string gives ""), and a null or absent cell gives "".
C22_NormalizeFlatString ==
  qPhase = "done" =>
    \A k \in 1..Len(qResult) : \A io \in Normalized(k) :
      /\ IsStr(io[2])
      /\ IsStr(io[1]) => io[2] = Str(Trim(io[1].s))
      /\ io[1] \in { Null, Undef } => io[2] = Str(<< >>)

\* A blank project cell came back as the blank string it was, and a number
\* cell as a number.
C22_Witness ==
  /\ qPhase = "done"
  /\ \E k \in 1..Len(qResult) :
       /\ RawCell(k, ColProject) = Str(TwoBlanks)
       /\ qResult[k].project = Str(TwoBlanks)
  /\ \E k \in 1..Len(qResult) :
       /\ RawCell(k, ColProject) = Num(0, 5)
       /\ qResult[k].project = Num(0, 5)

\* C23: the rows of a result are made, one each and in table order, from the
\* records the filter keeps: the kept indices increase strictly and row j is
\* the output row of the j-th kept record.  With no start_date, end_date or
\* person every record is kept, so there is exactly one row per record.
C23_TableOrder ==
  qPhase = "done" =>
    /\ Len(qResult) = Len(qKept)
    /\ \A j \in 1..Len(qKept) :
         /\ qKept[j] \in 1..Len(qTable)
         /\ qResult[j] = MapRow(qTable[qKept[j]], qTz)
    /\ \A i, j \in 1..Len(qKept) : i < j => qKept[i] < qKept[j]
    /\ (~Truthy(qArgs.startDate) /\ ~Truthy(qArgs.endDate) /\ ~Truthy(qArgs.person))
         => qKept = [k \in 1..Len(qTable) |-> k]

\* A query with a person filter on a table of two records returned the row
\* of the second record only.
C23_Witness ==
  /\ qPhase = "done"
  /\ Len(qTable) = 2
  /\ Truthy(qArgs.person)
  /\ qKept = << 2 >>
  /\ qResult = << MapRow(qTable[2], qTz) >>

(***************************************************************************)
(* Claims about listBitableRecords                                         *)
(***************************************************************************)

\* C9 as stated: the call returns every row of the table, the items of all the
\* pages the server holds in order, and stops only on a page with has_more =
\* false, also when a page has has_more = true and no usable page_token.
C9_ReturnsEveryRow ==
  lPc = "returned" =>
    /\ lRet = Returned(RowsFrom(lServer, 1))
    /\ ~lServer[PageIndex(lLog[Len(lLog)].sent)].has_more

\* The call returned after a page with has_more = true, leaving pages unread.
C9_Witness ==
  /\ lPc = "returned"
  /\ Truncating(lServer[PageIndex(lLog[Len(lLog)].sent)])
  /\ Len(lLog) < Len(lServer)

\* C10: when a page request fails, the call throws, delivers no rows, and
\* sends no further request: a failed request is the last one of its call.
C10_FailureAborts ==
  \A i \in 1..Len(lLog) :
    lLog[i].outcome # "ok" =>
      /\ i = Len(lLog)
      /\ lPc = "thrown"
      /\ lRet.kind = "error"

\* A call threw on a later page, after rows had been fetched.
C10_Witness ==
  /\ lPc = "thrown"
  /\ Len(lLog) >= 2
  /\ lAll # << >>

(***************************************************************************)
(* Claims about the token cache                                            *)
(***************************************************************************)

\* The step in which caller c begins a call of getTenantAccessToken.
Begins(c) == tCalls[c].pc = "idle" /\ tCalls'[c].pc # "idle"

\* The expire the claims speak of: as declared, 3600 when absent.
DeclaredExpire == IF tFetch.E = Undef THEN 3600 ELSE tFetch.E.lo

\* C7: after a successful refresh begun at T whose response declares expire =
\* E (3600 when absent), a call made strictly before T + (E - 60) s, while
\* that token is the cached one, returns the cached token and sends no
\* request to the identity endpoint.
C7_NoRefreshBeforeDeadline ==
  [][ \A c \in Callers :
        ( /\ Begins(c)
          /\ Truthy(cachedToken)
          /\ tNow < tFetch.T + (DeclaredExpire - 60) * 1000 )
        => /\ tCalls'[c].pc = "returned"
           /\ tCalls'[c].ret = Returned(cachedToken)
           /\ tCalls'[c].sent = 0
           /\ tSerial' = tSerial ]_vars

\* A call made one millisecond before the deadline of an expire = 3600 token
\* was served from the cache.
C7_Witness ==
  \E c \in Callers :
    /\ tCalls[c].pc = "returned"
    /\ tCalls[c].sent = 0
    /\ tCalls[c].ret = Returned(cachedToken)
    /\ tFetch.E = Num(0, 3600)
    /\ tCalls[c].now = tFetch.T + 3539999

\* The cached token declared expire = 3600 and its T + 3540 s has come.
Expired3600 ==
  /\ Truthy(cachedToken)
  /\ tFetch.E = Num(0, 3600)
  /\ tNow >= tFetch.T + 3540000

\* C8 as stated: once a token fetched at T with expire = 3600 has reached
\* T + 3540 s, exactly one request is sent to the identity endpoint before a
\* fresh token is cached, also when several calls arrive at that moment.
C8_OneRefreshInAll == Expired3600 => tStaleReqs <= 1

\* C8 amended: each call at or after T + 3540 s that finds that token cached
\* sends one request to the identity endpoint, and no call ever sends more
\* than one; overlapping calls each send their own.
C8_OneRefreshPerCall ==
  /\ [](\A c \in Callers : tCalls[c].sent <= 1)
  /\ [][ \A c \in Callers :
           (Begins(c) /\ Expired3600)
           => /\ tCalls'[c].pc = "waiting"
              /\ tCalls'[c].sent = 1
              /\ tSerial' = tSerial + 1 ]_vars

\* Two calls that arrived at T + 3540 s are both awaiting the identity
\* endpoint.
C8_Witness ==
  /\ Expired3600
  /\ tNow = tFetch.T + 3540000
  /\ \A c \in Callers : tCalls[c].pc = "waiting" /\ tCalls[c].now = tNow
  /\ tStaleReqs = 2

\* This step is the failure of caller c's refresh.
RefreshFails(c) == tCalls[c].pc = "waiting" /\ tCalls'[c].pc = "thrown"

\* C11 as stated: a refresh that the identity endpoint answers with a
\* non-zero code fails the call with an error and leaves cachedToken and
\* tokenExpireAt as they were, and the next call attempts a refresh again
\* rather than returning a token.
C11_FailureThenRefresh ==
  /\ [][ \A c \in Callers : RefreshFails(c) =>
           /\ tCalls'[c].ret.kind = "error"
           /\ cachedToken' = cachedToken
           /\ tokenExpireAt' = tokenExpireAt ]_vars
  /\ [][ \A c \in Callers : (Begins(c) /\ tFailed) =>
           /\ tCalls'[c].pc = "waiting"
           /\ tCalls'[c].sent = 1 ]_vars

\* C11 amended: the failed refresh throws and leaves cachedToken and
\* tokenExpireAt as they were; the next call attempts a refresh again unless
\* an overlapping call has cached a token that is still fresh, which it
\* then returns.
C11_FailureLeavesCache ==
  /\ [][ \A c \in Callers : RefreshFails(c) =>
           /\ tCalls'[c].ret.kind = "error"
           /\ cachedToken' = cachedToken
           /\ tokenExpireAt' = tokenExpireAt ]_vars
  /\ [][ \A c \in Callers : (Begins(c) /\ tFailed) =>
           IF Truthy(cachedToken) /\ tNow < tokenExpireAt
             THEN /\ tCalls'[c].pc = "returned"
                  /\ tCalls'[c].ret = Returned(cachedToken)
                  /\ tCalls'[c].sent = 0
             ELSE /\ tCalls'[c].pc = "waiting"
                  /\ tCalls'[c].sent = 1 ]_vars

\* A refresh failed with a non-zero code while nothing fresh was cached,
\* and the next call is awaiting the identity endpoint again.
C11_Witness ==
  \E c, d \in Callers :
    /\ c # d
    /\ tCalls[c].pc = "thrown" /\ tCalls[c].ret = Thrown("code")
    /\ tCalls[d].pc = "waiting" /\ tCalls[d].now >= tCalls[c].now
    /\ ~tFailed
    /\ tStaleReqs = 2
    /\ cachedToken = Null /\ tokenExpireAt = 0

\* This step is the success of caller c's refresh.
RefreshSucceeds(c) == tCalls[c].pc = "waiting" /\ tCalls'[c].pc = "returned"

\* C28: overlapping calls that find no fresh token each send their own
\* request; cachedToken and tokenExpireAt change only together, in the step
\* of one successful refresh, to the token of that response and the deadline
\* of that call and response; and a call that returns from the cache returns
\* the cached token strictly before the deadline recorded with it.
C28_BenignRefreshRace ==
  /\ [](Truthy(cachedToken) =>
          tokenExpireAt = ExpireAt(tFetch.T, tFetch.E))
  /\ [][/\ \A c \in Callers :
             (Begins(c) /\ ~(Truthy(cachedToken) /\ tNow < tokenExpireAt)) =>
               /\ tCalls'[c].pc = "waiting"
               /\ tCalls'[c].sent = 1
               /\ tSerial' = tSerial + 1
        /\ (cachedToken' # cachedToken \/ tokenExpireAt' # tokenExpireAt) =>
             \E c \in Callers, e \in ExpireChoices :
               /\ RefreshSucceeds(c)
               /\ tCalls'[c].ret = Returned(cachedToken')
               /\ tokenExpireAt' = ExpireAt(tCalls[c].now, e)
               /\ tFetch' = [T |-> tCalls[c].now, E |-> e]
        /\ \A c \in Callers :
             (Begins(c) /\ tCalls'[c].pc = "returned") =>
               /\ tCalls'[c].ret = Returned(cachedToken)
               /\ tCalls'[c].sent = 0
               /\ tCalls'[c].now < ExpireAt(tFetch.T, tFetch.E)]_vars

\* C28: two calls overlapped, each sent its own request, and the response of
\* the call that began first arrived last: both cache variables are its.
C28_Witness ==
  \E c, d \in Callers :
    /\ tCalls[c].pc = "returned" /\ tCalls[c].sent = 1
    /\ tCalls[d].pc = "returned" /\ tCalls[d].sent = 1
    /\ tCalls[c].now < tCalls[d].now
    /\ tFetch.T = tCalls[c].now
    /\ cachedToken = tCalls[c].ret.value
    /\ tokenExpireAt = ExpireAt(tCalls[c].now, tFetch.E)
    /\ tokenExpireAt > tNow

(***************************************************************************)
(* Claims about the session layer                                          *)
(***************************************************************************)

\* The session token of the last timesheet request carries the signature of
\* its payload under the server's secret.
SignatureMatches ==
  /\ sLast.op = "timesheet"
  /\ sLast.sessionToken # Undef
  /\ Len(sLast.sessionToken.parts) = 2
  /\ sLast.sessionToken.parts[2] = Hmac(Secret, sLast.sessionToken.parts[1])

\* The payload of that token.
Embedded == sLast.sessionToken.parts[1]

C2_ExpiredTokenIgnored ==
  (SignatureMatches /\ sLast.at > Embedded.expiresAt)
    => /\ sLast.eff = sLast.args.person
       /\ sLast.upstream = "ok" =>
            /\ sLast.status = 200
            /\ sLast.data = SessionRows[sLast.args.person]

\* An expired token of Al was presented without a person parameter and the
\* rows of everybody came back.
C2_Witness ==
  /\ SignatureMatches /\ sLast.at > Embedded.expiresAt
  /\ Embedded.personName = Str(Al)
  /\ sLast.args.person = Undef
  /\ sLast.status = 200
  /\ sLast.data = SessionRows[Undef]
  /\ sLast.data # SessionRows[Str(Al)]

\* The store holds, at instant now, an unexpired entry for the phone with
\* this code.
StoredFor(phone, code, now) ==
  /\ phoneCodeStore[DigitsOnly(phone)].present
  /\ phoneCodeStore[DigitsOnly(phone)].code = code
  /\ now <= phoneCodeStore[DigitsOnly(phone)].expiresAt

\* Connection c's verify_code passes the verification in this step.
Passes(c) == sReqs[c].pc = "idle" /\ sReqs'[c].pc = "vc_lookup"

\* This step answers a verify_code whose verification failed.
Rejects ==
  /\ sLast = NoResp /\ sLast'.op = "verify_code"
  /\ ~sLast'.consumed /\ sLast'.code # << >>

\* C3: a phone code is single-use.  While code c is stored for a phone and
\* has not expired, a verify_code with that phone and c passes the
\* verification, and passing deletes the entry; from then on every
\* verify_code with the same phone and c is answered 400, until a new code
\* is stored for the phone.
C3_SingleUse ==
  /\ [][Rejects => /\ sLast'.status = 400
                   /\ ~StoredFor(sLast'.phone, sLast'.code, sNow)]_vars
  /\ [][\A c \in Conns : Passes(c) =>
          /\ StoredFor(sReqs'[c].phone, sReqs'[c].code, sNow)
          /\ ~phoneCodeStore'[DigitsOnly(sReqs'[c].phone)].present
          /\ sUsed[DigitsOnly(sReqs'[c].phone)] # sReqs'[c].code]_vars

\* A second verify_code with a code already used was answered 400, within
\* the lifetime the code had.
C3_Witness ==
  /\ sLast.op = "verify_code" /\ sLast.status = 400 /\ ~sLast.consumed
  /\ sLast.code = Code1
  /\ sUsed[DigitsOnly(sLast.phone)] = Code1
  /\ sTicks = 0

\* C4: every verify_code call that consumes a matched code answers code 0
\* with a signed session token that embeds the person's name.
C4_ConsumedEndsVerified ==
  (sLast.op = "verify_code" /\ sLast.consumed)
    => /\ sLast.status = 200
       /\ Len(sLast.token.parts) = 2
       /\ sLast.token.parts[2] = Hmac(Secret, sLast.token.parts[1])
       /\ sLast.token.parts[1].personName = Str(sLast.personName)

\* A verify_code consumed the code and answered 500 without a token.
C4_Witness ==
  /\ sLast.op = "verify_code" /\ sLast.consumed
  /\ sLast.status = 500 /\ sLast.token = NoToken
  /\ ~phoneCodeStore[DigitsOnly(sLast.phone)].present

\* C29: of the verify_code requests that carry the phone and the code of one
\* stored entry, in flight together or one after the other, at most one
\* passes verifyPhoneCode.  A request passes only when nobody has passed on
\* the entry since it was stored, its pass deletes the entry in the same
\* step, and no two requests pass in one step.
C29_AtMostOnePasses ==
  [][\A d \in Conns : Passes(d) =>
       LET k == DigitsOnly(sReqs'[d].phone)
       IN /\ sUsed[k] = << >>
          /\ sUsed'[k] = sReqs'[d].code
          /\ phoneCodeStore[k].code = sReqs'[d].code
          /\ phoneCodeStore'[k] = NoEntry
          /\ \A c \in Conns \ { d } : sReqs'[c] = sReqs[c]]_vars

\* C29: while one connection's verify_code, having passed, awaits the
\* employee lookup, the other connection's verify_code with the same phone
\* and the same code is answered 400.
C29_Witness ==
  \E c \in Conns :
    /\ sReqs[c].pc = "vc_lookup"
    /\ sLast.op = "verify_code" /\ sLast.status = 400 /\ ~sLast.consumed
    /\ DigitsOnly(sLast.phone) = DigitsOnly(sReqs[c].phone)
    /\ sLast.code = sReqs[c].code
    /\ sUsed[DigitsOnly(sLast.phone)] = sLast.code

(***************************************************************************)
(* Claims about request_code and verify_code over time                     *)
(***************************************************************************)

\* No record of the employee table has the digits of phone as the digits of
\* its phone cell.
NoRecordMatches(phone, records) ==
  \A i \in 1..Len(records) :
    LET phoneArr == ExtractTextValues(Get(FieldsOf(records[i]), ColPhone))
    IN phoneArr = << >> \/ DigitsOnly(phoneArr[1]) # DigitsOnly(phone)

\* This step answers a request_code for a phone that no record matches: at
\* the throttle or at the lookup, not after a dispatch that a lookup allowed.
AnswersUnknownPhone ==
  /\ sLast = NoResp /\ sLast'.op = "request_code"
  /\ sLast'.phone # << >>
  /\ NoRecordMatches(sLast'.phone, sRoster)
  /\ \A c \in Conns : sReqs[c].pc = "rc_sms" => sReqs'[c] = sReqs[c]

\* C16 as stated: every request_code for a phone that matches no record of
\* the employee table is answered 400 and stores no code and dispatches no
\* SMS, repeated requests for the same phone included.  (Requests whose
\* listing of the employee table failed are left aside.)
C16_UnknownPhoneAlways400 ==
  [][(AnswersUnknownPhone /\ sLast'.upstream # "throw")
       => /\ sLast'.status = 400
          /\ phoneCodeStore' = phoneCodeStore
          /\ \A c \in Conns : sReqs'[c].pc # "rc_sms"]_vars

\* C16: a request_code for a phone that matches no record of the employee
\* table never stores a code and never dispatches an SMS.  It is answered
\* 400 "phone not found" when it passes the cooldown and the table is
\* listed, 429 when a request for the same digits passed the cooldown less
\* than 60 s before, and 500 when the listing fails.
C16_UnknownPhoneRejected ==
  /\ [][AnswersUnknownPhone
          => /\ phoneCodeStore' = phoneCodeStore
             /\ IF sReqs' = sReqs
                  THEN /\ sLast'.status = 429
                       /\ sNow - lastSendAt[DigitsOnly(sLast'.phone)] < 60 * 1000
                  ELSE IF sLast'.upstream = "throw"
                    THEN sLast'.status = 500
                  ELSE /\ sLast'.status = 400
                       /\ sLast'.msg = "phone not found"]_vars
  /\ [][\A c \in Conns :
          (sReqs[c].pc = "rc_lookup" /\ sReqs'[c] # sReqs[c]
           /\ NoRecordMatches(sReqs[c].phone, sRoster))
            => /\ sReqs'[c].pc = "idle"
               /\ phoneCodeStore' = phoneCodeStore]_vars

\* The same unknown phone asked twice, a cooldown apart: the second request
\* too was answered 400 "phone not found", and nothing is stored for it.
C16_Witness ==
  /\ sLast.op = "request_code" /\ sLast.status = 400
  /\ sLast.msg = "phone not found"
  /\ NoRecordMatches(sLast.phone, sRoster)
  /\ sCodes = 2 /\ lastSendAt[DigitsOnly(Phone1)] = 0
  /\ ~phoneCodeStore[DigitsOnly(sLast.phone)].present

\* Connection c's request_code passes the cooldown check in this step.
PassesCooldown(c) == sReqs[c].pc = "idle" /\ sReqs'[c].pc = "rc_lookup"

\* This step answers a request_code at the throttle.
Throttled ==
  /\ sLast = NoResp /\ sLast'.op = "request_code"
  /\ sLast'.phone # << >> /\ sReqs' = sReqs

\* C17: the cooldown timestamp of a digits-only key changes exactly when a
\* request_code for the key passes the cooldown check, to the time t of the
\* pass.  A request_code for the key before t + 60 s is answered 429 with
\* the remaining wait rounded up to seconds and changes neither the stored
\* codes nor the timestamps; a request that passes comes at or after
\* t + 60 s, so a request at or after t + 60 s is not throttled.
C17_CooldownWindow ==
  /\ [][\A c \in Conns : PassesCooldown(c) =>
          LET k == DigitsOnly(sReqs'[c].phone)
          IN /\ sNow >= lastSendAt[k] + 60 * 1000
             /\ lastSendAt' = [lastSendAt EXCEPT ![k] = sNow]]_vars
  /\ [][(\A c \in Conns : ~PassesCooldown(c)) => lastSendAt' = lastSendAt]_vars
  /\ [][Throttled =>
          LET k == DigitsOnly(sLast'.phone)
              remaining == lastSendAt[k] + 60 * 1000 - sNow
          IN /\ sLast'.status = 429
             /\ sNow < lastSendAt[k] + 60 * 1000
             /\ (sLast'.waitSec - 1) * 1000 < remaining
             /\ remaining <= sLast'.waitSec * 1000
             /\ phoneCodeStore' = phoneCodeStore
             /\ lastSendAt' = lastSendAt]_vars

\* A code is stored for a phone, and a request_code for it one millisecond
\* before the window ends was answered 429 with a wait of one second.
C17_Witness ==
  /\ sLast.op = "request_code" /\ sLast.status = 429
  /\ sLast.waitSec = 1
  /\ sNow = lastSendAt[DigitsOnly(sLast.phone)] + 60 * 1000 - 1
  /\ phoneCodeStore[DigitsOnly(sLast.phone)].present

\* Connection c's request_code stores its code in this step.
StoresCode(c) == sReqs[c].pc = "rc_lookup" /\ sReqs'[c].pc = "rc_sms"

\* C18: a code is stored with an expiry 5 minutes after the instant of
\* storing.  A verify_code with the stored code passes exactly when it comes
\* no later than that expiry; one that comes later is answered 400 and the
\* stored entry is removed.
C18_FiveMinuteExpiry ==
  /\ [][\A c \in Conns : StoresCode(c) =>
          phoneCodeStore'[DigitsOnly(sReqs'[c].phone)] =
            [present |-> TRUE, code |-> sReqs'[c].code,
             expiresAt |-> sNow + 5 * 60 * 1000]]_vars
  /\ [][Rejects =>
          LET k == DigitsOnly(sLast'.phone)
              item == phoneCodeStore[k]
          IN (item.present /\ item.code = sLast'.code)
               => /\ sNow > item.expiresAt
                  /\ sLast'.status = 400
                  /\ ~phoneCodeStore'[k].present]_vars
  /\ [][\A c \in Conns : Passes(c) =>
          LET item == phoneCodeStore[DigitsOnly(sReqs'[c].phone)]
          IN /\ item.present /\ item.code = sReqs'[c].code
             /\ sNow <= item.expiresAt]_vars

\* A verify_code with the stored code came one millisecond after the expiry:
\* it was answered 400 and the entry is gone.
C18_Witness ==
  /\ sLast.op = "verify_code" /\ sLast.status = 400
  /\ sLast.item.present /\ sLast.item.code = sLast.code
  /\ sNow = sLast.item.expiresAt + 1
  /\ ~phoneCodeStore[DigitsOnly(sLast.phone)].present

\* The response in sLast answers a verify_code whose verification failed.
Rejected == sLast.op = "verify_code" /\ ~sLast.consumed /\ sLast.code # << >>

\* What the client sees of a response.
Observable(r) ==
  [status |-> r.status, msg |-> r.msg, token |-> r.token,
   personName |-> r.personName]

\* C19: a verify_code whose verification failed is answered with one and
\* the same response, status 400 and one message, whether no entry was
\* stored for the phone, the entry had expired, or the code was wrong.
C19_OneRejection ==
  Rejected =>
    /\ \/ ~sLast.item.present
       \/ sNow > sLast.item.expiresAt
       \/ sLast.item.code # sLast.code
    /\ Observable(sLast) =
         [status |-> 400, msg |-> "invalid or expired", token |-> NoToken,
          personName |-> << >>]

\* A wrong code against a stored entry that has not expired was rejected
\* with that response, and the entry is still stored.
C19_Witness ==
  /\ Rejected /\ sLast.status = 400
  /\ sLast.item.present /\ sNow <= sLast.item.expiresAt
  /\ sLast.item.code # sLast.code
  /\ phoneCodeStore[DigitsOnly(sLast.phone)] = sLast.item

\* parseSessionToken was handed a token of two parts.
ParsedTwoParts ==
  /\ sLast.op = "parse"
  /\ sLast.sessionToken # Undef
  /\ Len(sLast.sessionToken.parts) = 2

\* The signature part is the HMAC of the payload part under the secret.
SignatureValid(tk) == tk.parts[2] = Hmac(Secret, tk.parts[1])

\* Token a is token b with exactly one of its two parts replaced.
AlteredFrom(a, b) ==
  \/ a.parts[1] # b.parts[1] /\ a.parts[2] = b.parts[2]
  \/ a.parts[1] = b.parts[1] /\ a.parts[2] # b.parts[2]

\* C20 as stated: parseSessionToken accepts a token exactly when its
\* signature equals the HMAC of its encoded payload under the secret and its
\* embedded expiry has not passed.
C20_AcceptsIffSignedUnexpired ==
  ParsedTwoParts =>
    (sLast.payload # Null
       <=> /\ SignatureValid(sLast.sessionToken)
           /\ ~(sLast.at > sLast.sessionToken.parts[1].expiresAt))

\* C20: parseSessionToken accepts a token exactly when its signature equals
\* the HMAC of its payload part under the secret, the payload decodes to
\* JSON with a non-empty personName and an expiresAt, and that expiry has
\* not passed; it then returns the payload.  createSessionToken(p) at time t
\* embeds p and the expiry t + 4 h under a valid signature, so its token
\* parses to p up to t + 4 h and to null after; a created token with its
\* payload or its signature replaced parses to null.
C20_ParseRoundTrip ==
  /\ [](ParsedTwoParts =>
          LET tk == sLast.sessionToken
              embedded == tk.parts[1]
          IN /\ sLast.payload # Null
                  <=> /\ SignatureValid(tk)
                      /\ embedded.json
                      /\ Truthy(embedded.personName)
                      /\ embedded.expiresAt # 0
                      /\ sLast.at <= embedded.expiresAt
             /\ sLast.payload # Null => sLast.payload = embedded
             /\ (\E made \in sIssued : AlteredFrom(tk, made))
                  => sLast.payload = Null)
  /\ []((sLast.op = "parse" /\ ~ParsedTwoParts) => sLast.payload = Null)
  /\ [][\A tk \in sIssued' \ sIssued :
          /\ SignatureValid(tk)
          /\ tk.parts[1].json
          /\ \E p \in PersonNames : tk.parts[1].personName = Str(p)
          /\ tk.parts[1].expiresAt = sNow + 1000 * 60 * 60 * 4]_vars

\* A created token of Al was parsed exactly 4 hours after its creation and
\* gave Al's name.
C20_Witness ==
  /\ ParsedTwoParts
  /\ sLast.sessionToken \in sIssued
  /\ sLast.at = sLast.sessionToken.parts[1].expiresAt
  /\ sLast.payload # Null
  /\ sLast.payload.personName = Str(Al)

\* A step in which request_code stores a code under key k: the entry holds
\* the code of that request and expires five minutes later.
IssuesCode(k) ==
  \E c \in Conns :
    /\ sReqs[c].pc = "rc_lookup"
    /\ sReqs'[c].pc = "rc_sms"
    /\ DigitsOnly(sReqs[c].phone) = k
    /\ phoneCodeStore'[k] = [present |-> TRUE, code |-> sReqs'[c].code,
                             expiresAt |-> sNow + 5 * 60 * 1000]

\* A step in which verify_code on connection c passes verifyPhoneCode.
PassesVerification(c) ==
  sReqs[c].pc # "vc_lookup" /\ sReqs'[c].pc = "vc_lookup"

\* C26: the login state machine is followed per phone key.  The store starts
\* empty and an entry appears or changes only when request_code stores its
\* code, so the entry under a key is the latest code issued for it that was
\* neither consumed nor deleted as expired.  verify_code passes only on an
\* entry that is present, not past its expiry, and equal to the submitted
\* (trimmed) code, and it consumes the entry; a token is sent only by a
\* verify_code that passed.
C26_TokenOnlyAfterIssuedCode ==
  /\ \A k \in PhoneKeys : phoneCodeStore[k] = NoEntry
  /\ [][/\ \A k \in PhoneKeys :
             phoneCodeStore'[k] # phoneCodeStore[k] =>
               phoneCodeStore'[k] = NoEntry \/ IssuesCode(k)
        /\ \A c \in Conns :
             PassesVerification(c) =>
               LET k == DigitsOnly(sReqs'[c].phone)
                   item == phoneCodeStore[k]
               IN /\ item.present
                  /\ sNow <= item.expiresAt
                  /\ item.code = sReqs'[c].code
                  /\ phoneCodeStore'[k] = NoEntry
        /\ (sLast' # sLast /\ sLast'.token # NoToken) =>
             \E c \in Conns :
               /\ sReqs[c].pc = "vc_lookup"
               /\ sReqs'[c].pc = "idle"
               /\ sLast'.op = "verify_code"
               /\ sLast'.phone = sReqs[c].phone
               /\ sLast'.code = sReqs[c].code]_vars

\* C26: a token is sent for the second code issued to a phone, the first one
\* replaced, the verification having consumed the entry.
C26_Witness ==
  /\ sLast.op = "verify_code"
  /\ sLast.status = 200
  /\ sLast.token # NoToken
  /\ sCodes = 2
  /\ sLast.code = Code1
  /\ phoneCodeStore[DigitsOnly(sLast.phone)] = NoEntry

\* The expiry embedded in a token that createSessionToken made.
EmbeddedExpiry(tk) == tk.parts[1].expiresAt

\* C27: the validity of a session token depends on no server-side state.  In
\* every state reached by request_code, verify_code, timesheet and the clock,
\* each token handed out parses to its payload exactly while the clock is not
\* past its embedded expiry, whatever was stored, consumed or issued since;
\* the parses and timesheet requests made with such a token saw the same.
C27_TokenValidUntilExpiry ==
  /\ \A tk \in sIssued :
       ParseSessionToken(tk, sNow) =
         IF sNow <= EmbeddedExpiry(tk) THEN tk.parts[1] ELSE Null
  /\ (sLast.op = "parse" /\ sLast.sessionToken \in sIssued) =>
       sLast.payload = IF sLast.at <= EmbeddedExpiry(sLast.sessionToken)
                         THEN sLast.sessionToken.parts[1] ELSE Null
  /\ (/\ sLast.op = "timesheet"
      /\ sLast.sessionToken \in sIssued
      /\ sLast.at <= EmbeddedExpiry(sLast.sessionToken)) =>
       sLast.eff = sLast.sessionToken.parts[1].personName

\* C27: a token is parsed and accepted after a later login of the same person
\* was answered with a newer token.
C27_Witness ==
  /\ sLast.op = "parse"
  /\ sLast.payload # Null
  /\ \E tk \in sIssued :
       /\ tk.parts[1].personName = sLast.payload.personName
       /\ EmbeddedExpiry(tk) > sLast.payload.expiresAt

\* The reasons for which parseSessionToken answers null to a token that was
\* sent: it has not two parts, its signature is not the HMAC of its payload
\* part, its payload is not JSON, the payload lacks personName or expiresAt,
\* or the expiry has passed.
FailsValidation(tk, now) ==
  /\ tk # Undef
  /\ \/ Len(tk.parts) # 2
     \/ ~SignatureValid(tk)
     \/ ~tk.parts[1].json
     \/ ~Truthy(tk.parts[1].personName)
     \/ tk.parts[1].expiresAt = 0
     \/ now > tk.parts[1].expiresAt

WrongCodeAttempt ==
  /\ Rejects
  /\ phoneCodeStore[DigitsOnly(sLast'.phone)].present
  /\ sNow <= phoneCodeStore[DigitsOnly(sLast'.phone)].expiresAt

\* C31: a verify_code with a wrong code leaves the store as it was, the entry
\* of the phone with the same code and the same expiry, and nothing counts
\* the attempt.  A request that is turned down on an unexpired entry carried
\* another code than the stored one, so whatever wrong attempts were made,
\* the correct code passes while the entry has not expired.
C31_WrongCodeKeepsEntry ==
  [][WrongCodeAttempt =>
       /\ sLast'.code # phoneCodeStore[DigitsOnly(sLast'.phone)].code
       /\ sLast'.status = 400
       /\ phoneCodeStore' = phoneCodeStore
       /\ sUsed' = sUsed
       /\ VerifyPhoneCode(phoneCodeStore', sLast'.phone,
                          phoneCodeStore[DigitsOnly(sLast'.phone)].code, sNow)
       /\ \A c \in Conns : sReqs'[c] = sReqs[c]]_vars

\* C31: a wrong code was answered 400 and the entry it was tried on is still
\* stored, unexpired, with the code and expiry it had.
C31_Witness ==
  /\ sLast.op = "verify_code" /\ sLast.status = 400 /\ ~sLast.consumed
  /\ sLast.item.present
  /\ sLast.item.code # sLast.code
  /\ sLast.at <= sLast.item.expiresAt
  /\ phoneCodeStore[DigitsOnly(sLast.phone)] = sLast.item

\* C32: one code is stored per digits-only phone key.  When request_code
\* stores a code, the entry of the key becomes that code with an expiry five
\* minutes ahead, whatever entry the key had, and no other key changes; from
\* then on the new code verifies, and the code it replaced, when it is
\* another one, does not, at that instant and up to the expiry it had.
C32_NewCodeReplaces ==
  [][\A c \in Conns : StoresCode(c) =>
       LET phone == sReqs'[c].phone
           k == DigitsOnly(phone)
           old == phoneCodeStore[k]
           new == phoneCodeStore'[k]
       IN /\ sReqs'[c].prev = old
          /\ new = [present |-> TRUE, code |-> sReqs'[c].code,
                    expiresAt |-> sNow + 5 * 60 * 1000]
          /\ \A j \in PhoneKeys \ { k } :
               phoneCodeStore'[j] = phoneCodeStore[j]
          /\ VerifyPhoneCode(phoneCodeStore', phone, new.code, sNow)
          /\ (old.present /\ old.code # new.code) =>
               /\ ~VerifyPhoneCode(phoneCodeStore', phone, old.code, sNow)
               /\ ~VerifyPhoneCode(phoneCodeStore', phone, old.code,
                                   old.expiresAt)]_vars

\* C32: a second code was sent for a phone whose first code had not expired;
\* the store holds the second code alone, and the first no longer verifies.
C32_Witness ==
  /\ sLast.op = "request_code" /\ sLast.status = 200
  /\ sLast.item.present
  /\ sLast.item.code # sLast.code
  /\ sLast.at <= sLast.item.expiresAt
  /\ phoneCodeStore[DigitsOnly(sLast.phone)].code = sLast.code
  /\ phoneCodeStore[DigitsOnly(sLast.phone)].expiresAt > sLast.item.expiresAt
  /\ ~VerifyPhoneCode(phoneCodeStore, sLast.phone, sLast.item.code, sNow)
  /\ VerifyPhoneCode(phoneCodeStore, sLast.phone, sLast.code, sNow)

\* Connection c's request_code ends in this step with status 400 or 500.
EndsFailed(c) ==
  /\ sReqs[c].pc \in { "rc_lookup", "rc_sms" }
  /\ sReqs'[c].pc = "idle"
  /\ sLast'.op = "request_code"
  /\ sLast'.status \in { 400, 500 }

\* C33: the cooldown timestamp of a key is recorded in the step in which a
\* request_code passes the cooldown check, with no code stored and nothing
\* answered yet.  The steps in which the request then fails, at the employee
\* lookup, at the phone format or at the SMS dispatch, leave the timestamp
\* recorded, so that within 60 s of it the next request for the key does not
\* pass the check: it is answered 429, also when the key has no stored code.
C33_FailedRequestStillThrottles ==
  /\ [][\A c \in Conns : PassesCooldown(c) =>
          LET k == DigitsOnly(sReqs'[c].phone)
          IN /\ lastSendAt'[k] = sNow
             /\ phoneCodeStore' = phoneCodeStore
             /\ sLast' = NoResp]_vars
  /\ [][\A c \in Conns : EndsFailed(c) =>
          LET k == DigitsOnly(sReqs[c].phone)
          IN /\ lastSendAt' = lastSendAt
             /\ lastSendAt[k] >= StartOfProcess
             /\ sNow < lastSendAt[k] + 60 * 1000 =>
                  ~CanSendNow(sReqs[c].phone, sNow)]_vars
  /\ [][(/\ Throttled
         /\ sNow < lastSendAt[DigitsOnly(sLast'.phone)] + 60 * 1000) =>
          /\ sLast'.status = 429
          /\ \A c \in Conns : ~PassesCooldown(c)]_vars

\* C33: a request_code is answered 429 within 60 s of a request for the same
\* key that left no code: none is stored for the key and none was consumed.
C33_Witness ==
  /\ sLast.op = "request_code" /\ sLast.status = 429
  /\ sNow < lastSendAt[DigitsOnly(sLast.phone)] + 60 * 1000
  /\ lastSendAt[DigitsOnly(sLast.phone)] >= StartOfProcess
  /\ ~phoneCodeStore[DigitsOnly(sLast.phone)].present
  /\ sUsed[DigitsOnly(sLast.phone)] = << >>
  /\ \A c \in Conns : sReqs[c].pc = "idle"

\* Connection c's request_code ends in this step with a failed SMS dispatch.
SmsFails(c) ==
  /\ sReqs[c].pc = "rc_sms"
  /\ sReqs'[c].pc = "idle"
  /\ sLast'.status = 500

\* C34: the code is in the store while the SMS is being dispatched, and a
\* dispatch that throws is answered 500 with the store left as it is: the
\* entry of the phone still holds the code of this request, and a verify_code
\* with it passes as long as its five minutes have not elapsed.
C34_FailedSmsKeepsCode ==
  /\ [](\A c \in Conns : sReqs[c].pc = "rc_sms" =>
          /\ phoneCodeStore[DigitsOnly(sReqs[c].phone)].present
          /\ phoneCodeStore[DigitsOnly(sReqs[c].phone)].code = sReqs[c].code)
  /\ [][\A c \in Conns : SmsFails(c) =>
          LET k == DigitsOnly(sReqs[c].phone)
          IN /\ sLast'.op = "request_code"
             /\ sLast'.body = 1
             /\ phoneCodeStore' = phoneCodeStore
             /\ phoneCodeStore'[k].present
             /\ phoneCodeStore'[k].code = sReqs[c].code
             /\ VerifyPhoneCode(phoneCodeStore', sReqs[c].phone,
                                sReqs[c].code, sNow)
                  = (sNow <= phoneCodeStore'[k].expiresAt)]_vars

\* C34: the dispatch threw, the request was answered 500, and the store
\* holds the code of that request, which verifies now.
C34_Witness ==
  /\ sLast.op = "request_code" /\ sLast.status = 500
  /\ sLast.code # << >>
  /\ phoneCodeStore[DigitsOnly(sLast.phone)].present
  /\ phoneCodeStore[DigitsOnly(sLast.phone)].code = sLast.code
  /\ VerifyPhoneCode(phoneCodeStore, sLast.phone, sLast.code, sNow)

(***************************************************************************)
(* Claims about the people list                                            *)
(***************************************************************************)

\* The last GET /api/people has been answered.
PeopleAnswered == pLast.status # 0

\* C12: when the roster table is configured but reading it fails,
\* queryAllPersons falls back to the timesheet scan: the answer is the
\* timesheet scan's names, and an error response is sent only when the
\* timesheet listing fails as well.
C12_RosterFailureFallsBack ==
  (PeopleAnswered /\ pLast.rosterFailed) =>
    IF pLast.sheetFailed
      THEN pLast.status = 500
      ELSE /\ pLast.status = 200
           /\ pLast.source = "timesheet"
           /\ pLast.data = QueryAllPersonsFromTimesheet(pSheet)

\* The roster table holds names, reading it failed, and the names of the
\* timesheet table were answered.
C12_Witness ==
  /\ pLast.rosterFailed /\ pLast.status = 200
  /\ QueryAllPersonsFromPeopleTable(pPeople) # << >>
  /\ pLast.data # << >>
  /\ pLast.data # QueryAllPersonsFromPeopleTable(pPeople)

\* The roster location is configured.
RosterConfigured == pEnv.appToken /\ pEnv.tableId

\* The roster table yields at least one name.
RosterHasName ==
  \E i \in 1..Len(pPeople) :
    ExtractTextValues(Get(FieldsOf(pPeople[i]), ColCommonName)) # << >>

\* C13: queryAllPersons returns the roster-table result exactly when the
\* roster location is configured, its listing succeeds and it yields at
\* least one name; otherwise the result is that of the timesheet scan; an
\* unconfigured roster is never read and is no error.
C13_RosterFirstNonEmpty ==
  (pVariant = "fallback" /\ PeopleAnswered) =>
    /\ pLast.status = 200 =>
         /\ pLast.source = "people"
              <=> (RosterConfigured /\ ~pLast.rosterFailed /\ RosterHasName)
         /\ pLast.source = "people"
              => pLast.data = QueryAllPersonsFromPeopleTable(pPeople)
         /\ pLast.source # "people"
              => pLast.data = QueryAllPersonsFromTimesheet(pSheet)
    /\ ~RosterConfigured =>
         /\ pLast.rosterReads = 0
         /\ ~pLast.sheetFailed => pLast.status = 200

\* The roster table holds names but its location is not configured: it was
\* not read and the timesheet scan was answered.
C13_Witness ==
  /\ pVariant = "fallback" /\ ~RosterConfigured /\ RosterHasName
  /\ pLast.status = 200 /\ pLast.rosterReads = 0
  /\ pLast.source = "timesheet" /\ pLast.data # << >>

\* The list has no duplicates and is in ascending order.
StrictlyAscending(list) ==
  \A i \in 1..Len(list) - 1 : StrLess(list[i], list[i + 1])

\* C14 as stated: the list has no duplicate entries and is sorted ascending,
\* and two calls against unchanged backing data return identical lists.
C14_SortedUniqueIdempotent ==
  pLast.status = 200 =>
    /\ StrictlyAscending(pLast.data)
    /\ pPrev.status = 200 => pPrev.data = pLast.data

\* C14 amended: the list has no duplicate entries and is sorted ascending,
\* and two calls against unchanged backing data return identical lists when
\* the roster read has the same outcome in both.
C14_SortedUniqueSameSource ==
  pLast.status = 200 =>
    /\ StrictlyAscending(pLast.data)
    /\ (pPrev.status = 200 /\ pPrev.rosterFailed = pLast.rosterFailed)
         => pPrev.data = pLast.data

\* Two calls returned the same list of at least two names.
C14_Witness ==
  /\ pLast.status = 200 /\ pPrev.status = 200
  /\ pPrev.rosterFailed = pLast.rosterFailed
  /\ Len(pLast.data) >= 2
  /\ pPrev.data = pLast.data

\* C15: every name returned by GET /api/people is trimmed of surrounding
\* whitespace, in every variant of queryAllPersons.
C15_NamesTrimmed ==
  pLast.status = 200 =>
    \A i \in 1..Len(pLast.data) : pLast.data[i] = Trim(pLast.data[i])

\* The Applicant scan returned a name both with and without its blanks.
C15_Witness ==
  /\ pVariant = "applicant" /\ pLast.status = 200
  /\ \E i, j \in 1..Len(pLast.data) :
       pLast.data[i] = Al /\ pLast.data[j] = AlInBlanks

(***************************************************************************)
(* Claims about the responses of all endpoints                             *)
(***************************************************************************)

\* The statuses a body with code 1 is documented to travel with.
FailureStatuses == { 400, 429, 500 }

\* C24: in every response of every endpoint a body with code 1 is sent with
\* status 400, 429 or 500 and a body with code 0 with status 200.  The code
\* breaks it: /api/debug-people without its configuration answers code 1
\* through res.json, status 200.
C24_BodyCodeMatchesStatus ==
  /\ sLast.body = 1 => sLast.status \in FailureStatuses
  /\ sLast.body = 0 => sLast.status = 200
  /\ pLast.body = 1 => pLast.status \in FailureStatuses
  /\ pLast.body = 0 => pLast.status = 200

\* C24: the unconfigured debug-people answer, code 1 with status 200, beside
\* which every other endpoint keeps the convention.
C24_Witness ==
  /\ sLast.op = "debug_people"
  /\ ~pEnv.appToken \/ ~pEnv.tableId
  /\ sLast.body = 1
  /\ sLast.status = 200

\* C25: a request during which the token endpoint or a listing failed is
\* answered 500 "Server error" and no body carries the upstream detail, on
\* every endpoint that reads the remote table.  The code breaks it:
\* request_code says "Failed to send SMS", the debug endpoints append
\* e.message to their message, and /api/people answers 200 after a failed
\* roster read.
C25_UpstreamFailureGeneric500 ==
  /\ sLast.detail = ""
  /\ sLast.upstream = "throw" =>
       sLast.status = 500 /\ sLast.msg = "server error"
  /\ (pLast.status # 0 /\ (pLast.rosterFailed \/ pLast.sheetFailed)) =>
       pLast.status = 500 /\ pLast.msg = "server error"

\* C25: /api/debug-record answers a failed listing with the error's message
\* in its body.
C25_Witness ==
  /\ sLast.op = "debug_record"
  /\ sLast.upstream = "throw"
  /\ sLast.status = 500
  /\ sLast.detail = UpstreamError

(***************************************************************************)
(* Specifications                                                          *)
(***************************************************************************)

\* The timesheet query against every table of the bounds.
SpecQuery == InitQuery /\ [][NextQuery]_vars

\* One caller of listBitableRecords against every server of the bounds.
SpecList == InitList /\ [][NextList]_vars

\* Overlapping callers of getTenantAccessToken, the clock and the identity
\* endpoint.
SpecToken == InitToken /\ [][NextToken]_vars

\* The login and timesheet handlers on overlapping connections, the clock and
\* the employee table.
SpecSession == InitSession /\ [][NextSession]_vars

\* The login handlers alone, at the ends of their time windows.
SpecRows == InitRows /\ [][NextRows]_vars

SpecLogin == InitSession /\ [][NextLogin]_vars

SpecLife == InitSession /\ [][NextLife]_vars

SpecEndpoints == InitEndpoints /\ [][NextEndpoints]_vars

SpecParse == InitSession /\ [][NextParse]_vars

\* GET /api/people against every roster and timesheet table of the bounds.
SpecPeople == InitPeople /\ [][NextPeople]_vars

=============================================================================
